---- MODULE Spec2Model ----
(***************************************************************************)
(* Verification model of the Bambu Lab printer client:                     *)
(*   - RetryHelper (withRetry, withConditionalRetry, isRetryableError)     *)
(*   - BambuLabMqttClient (connect, connectOnce, publishCommand,           *)
(*     getStatus, disconnect, forceDisconnect and the inbound message      *)
(*     handler)                                                            *)
(* Error messages are JavaScript strings and are modelled as strings; the  *)
(* regular expressions of isRetryableError are evaluated on them.          *)
(***************************************************************************)
EXTENDS Integers, Sequences, FiniteSets, TLC

VARIABLES
    \* ---- RetryHelper.withRetry / withConditionalRetry (one running call)
    rPc,          \* "idle" | "calling" | "sleeping" | "returned" | "thrown"
    rMode,        \* "withRetry" | "withConditionalRetry"
    rOpts,        \* the RetryOptions object handed in (absent field = undefined)
    attempt,      \* local variable attempt
    calls,        \* number of invocations of fn so far
    rDelay,       \* the delay being slept
    rOutcome,     \* what the call returned or threw
    rTrace,       \* history: every fn settlement, onRetry call and sleep, in order
    \* ---- BambuLabMqttClient.connectOnce (one record per attempt)
    handles,      \* the MqttClient objects created so far, in creation order
    client,       \* this.client: 0 for null, else an index into handles
    attempts,     \* per connectOnce call: its promise, its timer, its error
    \* ---- BambuLabMqttClient session state
    messageBuffer,      \* this.messageBuffer
    updateCallback,     \* this.updateCallback: 0 for undefined, else a callback
    lastParseError,     \* this.lastParseError: NoError for null
    parseErrorHistory,  \* this.parseErrorHistory
    call,               \* the latest publishCommand / getStatus call
    disc,               \* the disconnect() calls made so far
    \* ---- history kept for the properties
    received,           \* every payload that parsed, in arrival order
    badPayloads,        \* number of payloads that did not parse
    published,          \* the commands the latest call handed to client.publish
    callbackLog,        \* every invocation of an update callback
    apiCalls,           \* number of publishCommand / getStatus / forceDisconnect calls so far
    clearedAt,          \* Len(received) when the buffer was last emptied
    \* ---- the node and its helpers
    exec,               \* the execute() invocation: its locals and what it called
    commands,           \* the BambuLabCommands instance and the commands it built
    parser,             \* the FilamentProfileParser call: its input and its outcome
    matcher,            \* the FilamentMatcher call: its input and its outcome
    ftp,                \* the BambuLabFtpClient instance and what it sent
    inflight            \* publishCommand / getStatus calls made while others wait

retryVars == <<rPc, rMode, rOpts, attempt, calls, rDelay, rOutcome, rTrace>>
connVars  == <<handles, client, attempts>>
sessVars  == <<messageBuffer, updateCallback, lastParseError, parseErrorHistory,
               call, disc, received, badPayloads, published, callbackLog, apiCalls,
               clearedAt>>
helperVars == <<matcher, ftp, inflight>>
nodeVars  == <<exec, commands, parser, helperVars>>
vars == <<retryVars, connVars, sessVars, nodeVars>>

\* ------------------------------------------------------------------------
\* Bounds of the model
\* ------------------------------------------------------------------------
MaxRetriesOpt == 2      \* the largest explicit maxRetries option explored
MaxArrivals == 2        \* parseable payloads delivered in one run
MaxBadPayloads == 1     \* unparseable payloads delivered in one run
MaxCalls == 1           \* publishCommand / getStatus / forceDisconnect calls in one run
MaxDisconnects == 2     \* disconnect() calls in one run
MaxBurst == 102         \* status reports delivered back to back in one run
MaxCallbacks == 2       \* update callbacks registered in one run
MaxItems == 2           \* input items of one execute() invocation
MaxBuilt == 3
MaxProfiles == 2
MaxTrays == 2
MaxFtpCalls == 2
MaxFtpDisconnects == 2           \* commands built between two resets of the sequence id

\* ------------------------------------------------------------------------
\* constants.ts
\* ------------------------------------------------------------------------
RETRY_MAX_RETRIES == 3
RETRY_INITIAL_DELAY == 1000
RETRY_MAX_DELAY == 10000
RETRY_BACKOFF_MULTIPLIER == 2
MQTT_CONNECTION == 10000
MQTT_RESPONSE == 30000
GRACEFUL_DISCONNECT == 3000
MESSAGE_POLL == 250
MAX_MESSAGE_BUFFER == 100
MAX_PARSE_ERRORS == 10

\* ------------------------------------------------------------------------
\* JavaScript strings
\* ------------------------------------------------------------------------
UpperLetters == "ABCDEFGHIJKLMNOPQRSTUVWXYZ"
LowerLetters == "abcdefghijklmnopqrstuvwxyz"

LowerChar(c) ==
    IF \E i \in 1..26 : SubSeq(UpperLetters, i, i) = c
    THEN LET i == CHOOSE j \in 1..26 : SubSeq(UpperLetters, j, j) = c
         IN  SubSeq(LowerLetters, i, i)
    ELSE c

CharAt(s, i) == SubSeq(s, i, i)

\* /p/i.test(s) for a pattern p made of literal characters only: p occurs in
\* s at some position, letters compared without regard to case
TestIgnoreCase(p, s) ==
    \E i \in 1..(Len(s) - Len(p) + 1) :
        \A j \in 1..Len(p) :
            LowerChar(CharAt(s, i + j - 1)) = LowerChar(CharAt(p, j))

Min(a, b) == IF a <= b THEN a ELSE b

\* String.prototype.includes
Contains(str, sub) ==
    \E i \in 1..(Len(str) - Len(sub) + 1) : SubSeq(str, i, i + Len(sub) - 1) = sub

\* ------------------------------------------------------------------------
\* RetryHelper
\* ------------------------------------------------------------------------
retryablePatterns ==
    {"ECONNREFUSED", "ECONNRESET", "ETIMEDOUT", "ENOTFOUND",
     "timeout", "network", "connection"}

isRetryableError(message) ==
    \E p \in retryablePatterns : TestIgnoreCase(p, message)

\* options.f ?? d, and the destructuring default { f = d } = options
OptionOr(opts, f, d) == IF f \in DOMAIN opts THEN opts[f] ELSE d

maxRetriesOf(opts) == OptionOr(opts, "maxRetries", RETRY_MAX_RETRIES)
initialDelayOf(opts) == OptionOr(opts, "initialDelay", RETRY_INITIAL_DELAY)
maxDelayOf(opts) == OptionOr(opts, "maxDelay", RETRY_MAX_DELAY)
backoffMultiplierOf(opts) == OptionOr(opts, "backoffMultiplier", RETRY_BACKOFF_MULTIPLIER)
hasOnRetry(opts) == "onRetry" \in DOMAIN opts

\* mutant of BackoffDelay: the exponent is attempt, not attempt - 1
BackoffDelay_ExponentOff(opts, att) ==
    Min(initialDelayOf(opts) * (backoffMultiplierOf(opts) ^ att), maxDelayOf(opts))

\* Math.min(initialDelay * Math.pow(backoffMultiplier, attempt - 1), maxDelay)
BackoffDelay(opts, att) ==
    Min(initialDelayOf(opts) * (backoffMultiplierOf(opts) ^ (att - 1)), maxDelayOf(opts))

NoOutcome == [kind |-> "none", value |-> "", error |-> "", errorOf |-> 0]
Returned(v) == [kind |-> "returned", value |-> v, error |-> "", errorOf |-> 0]
Threw(message, n) == [kind |-> "thrown", value |-> "", error |-> message, errorOf |-> n]

TraceEvent(ev, n, message, delay) ==
    [ev |-> ev, n |-> n, error |-> message, delay |-> delay]

\* while (attempt <= maxRetries) { try { return await fn(); ...
\* the loop test and, when it passes, the next invocation of fn
RetryLoop(att, opts, mode) ==
    IF att <= maxRetriesOf(opts)
    THEN /\ rPc' = "calling"
         /\ calls' = calls + 1
         /\ rOutcome' = rOutcome
    ELSE /\ rPc' = "thrown"
         /\ calls' = calls
         /\ rOutcome' = Threw("Retry failed with unknown error", 0)

\* a call of withRetry(fn, options) or withConditionalRetry(fn, options)
RetryBegin(mode, opts) ==
    /\ rPc = "idle"
    /\ rMode' = mode
    /\ rOpts' = opts
    /\ attempt' = 0
    /\ RetryLoop(0, opts, mode)
    /\ UNCHANGED <<rDelay, rTrace>>

\* the awaited fn() resolves with v: return await fn()
RetryFnResolved(v) ==
    /\ rPc = "calling"
    /\ rPc' = "returned"
    /\ rOutcome' = Returned(v)
    /\ rTrace' = Append(rTrace, TraceEvent("resolved", calls, "", 0))
    /\ UNCHANGED <<rMode, rOpts, attempt, calls, rDelay>>

\* the common tail of both catch blocks, with attempt already incremented to
\* att: if (attempt > maxRetries) throw; else compute the delay, call
\* onRetry(attempt, error, delay) when given, and sleep(delay)
ThrowOrBackOff(message, att, exhausted) ==
    LET delay == BackoffDelay(rOpts, att)
        failed == TraceEvent("rejected", calls, message, 0)
    IN  /\ attempt' = att
        /\ IF exhausted
           THEN /\ rPc' = "thrown"
                /\ rOutcome' = Threw(message, calls)
                /\ rTrace' = Append(rTrace, failed)
                /\ UNCHANGED rDelay
           ELSE /\ rPc' = "sleeping"
                /\ rDelay' = delay
                /\ rTrace' = rTrace \o <<failed>>
                       \o (IF hasOnRetry(rOpts)
                           THEN <<TraceEvent("onRetry", att, message, delay)>>
                           ELSE << >>)
                       \o <<TraceEvent("sleep", att, "", delay)>>
                /\ UNCHANGED rOutcome

\* mutant of WithRetryCatch: gives up one invocation early
WithRetryCatch_OffByOne(message) ==
    ThrowOrBackOff(message, attempt + 1, attempt + 1 >= maxRetriesOf(rOpts))

\* the catch block of withRetry
WithRetryCatch(message) ==
    ThrowOrBackOff(message, attempt + 1, attempt + 1 > maxRetriesOf(rOpts))

\* mutant of WithConditionalRetryCatch: the classification is not consulted
WithConditionalRetryCatch_RetryAll(message) ==
    ThrowOrBackOff(message, attempt + 1, attempt + 1 > maxRetriesOf(rOpts))

\* the catch block of withConditionalRetry
WithConditionalRetryCatch(message) ==
    IF ~isRetryableError(message)
    THEN /\ rPc' = "thrown"
         /\ rOutcome' = Threw(message, calls)
         /\ rTrace' = Append(rTrace, TraceEvent("rejected", calls, message, 0))
         /\ UNCHANGED <<attempt, rDelay>>
    ELSE ThrowOrBackOff(message, attempt + 1, attempt + 1 > maxRetriesOf(rOpts))

\* the awaited fn() rejects with an Error carrying message
RetryFnRejected(message) ==
    /\ rPc = "calling"
    /\ IF rMode = "withRetry"
       THEN WithRetryCatch(message)
       ELSE WithConditionalRetryCatch(message)
    /\ UNCHANGED <<rMode, rOpts, calls>>

\* await this.sleep(delay) completes; the loop goes round
RetrySleepDone ==
    /\ rPc = "sleeping"
    /\ RetryLoop(attempt, rOpts, rMode)
    /\ UNCHANGED <<rMode, rOpts, attempt, rDelay, rTrace>>

\* ------------------------------------------------------------------------
\* Specification SpecRetry: RetryHelper around an arbitrary operation
\* ------------------------------------------------------------------------
FnValues == {"success", "other"}

FnErrors ==
    {"ECONNREFUSED", "Connection timeout", "Authentication failed", "Fail 1"}

RetryOptionSets ==
       { << >> }
    \cup { [maxRetries |-> m] : m \in 0..MaxRetriesOpt }
    \cup { [maxRetries |-> m, onRetry |-> TRUE] : m \in 0..MaxRetriesOpt }
    \cup { [maxRetries |-> m, initialDelay |-> 100, backoffMultiplier |-> 2,
            onRetry |-> TRUE] : m \in 0..MaxRetriesOpt }
    \cup { [maxRetries |-> m, initialDelay |-> 100, maxDelay |-> 150,
            backoffMultiplier |-> 3, onRetry |-> TRUE] : m \in 0..MaxRetriesOpt }

RetryInit ==
    /\ rPc = "idle"
    /\ rMode = "withRetry"
    /\ rOpts = << >>
    /\ attempt = 0
    /\ calls = 0
    /\ rDelay = 0
    /\ rOutcome = NoOutcome
    /\ rTrace = << >>

Undefined == "undefined"

NoMessage == [key |-> "none", sequence_id |-> Undefined, ams |-> FALSE, n |-> 0]

NoError == [source |-> "none", n |-> 0, after |-> 0]

NoCall ==
    [kind |-> "none", waitForResponse |-> FALSE, seqId |-> Undefined,
     promise |-> "none", result |-> NoMessage, error |-> "",
     timeout |-> FALSE, interval |-> FALSE, elapsed |-> 0,
     publishedAt |-> 0, settleCalls |-> 0]

\* the fields of a BambuLabMqttClient after construction
SessionNew ==
    /\ messageBuffer = << >>
    /\ updateCallback = 0
    /\ lastParseError = NoError
    /\ parseErrorHistory = << >>
    /\ call = NoCall
    /\ disc = << >>
    /\ received = << >>
    /\ badPayloads = 0
    /\ published = << >>
    /\ callbackLog = << >>
    /\ apiCalls = 0
    /\ clearedAt = 0

\* execute() not yet invoked
ExecIdle ==
    [pc |-> "idle", items |-> << >>, continueOnFail |-> FALSE, i |-> 0,
     mqttConnected |-> FALSE, connects |-> << >>, returnData |-> << >>,
     error |-> "", mqttDisconnects |-> 0, ftpDisconnects |-> 0]

\* new BambuLabCommands(): sequenceId = 0; ids: the identifiers handed out
\* since construction or the last reset; call, last: the latest builder call
\* and the command it returned
CommandsNew ==
    [sequenceId |-> 0, ids |-> << >>, call |-> [builder |-> "none"],
     last |-> [none |-> TRUE]]

\* FilamentProfileParser not yet called
ParserIdle == [pc |-> "idle"]

\* FilamentMatcher not yet called
MatcherIdle == [pc |-> "idle"]

\* new BambuLabFtpClient(credentials): never connected; sent: the file
\* commands handed to the FTP client so far; closes: its close() calls;
\* calls, disconnects, last: the number of connect() and file method calls,
\* the number of disconnect() calls, and the latest call (sentBefore: the
\* number of commands sent when it began)
FtpNew ==
    [isConnected |-> FALSE, closed |-> TRUE, sent |-> << >>, closes |-> 0,
     calls |-> 0, disconnects |-> 0, last |-> [method |-> "none", error |-> ""]]

NodeIdle ==
    /\ exec = ExecIdle /\ commands = CommandsNew /\ parser = ParserIdle
    /\ matcher = MatcherIdle /\ ftp = FtpNew /\ inflight = << >>

ConnIdle ==
    /\ handles = << >>
    /\ client = 0
    /\ attempts = << >>

CallWithRetry ==
    /\ \E opts \in RetryOptionSets : RetryBegin("withRetry", opts)
    /\ UNCHANGED <<connVars, sessVars, nodeVars>>

CallWithConditionalRetry ==
    /\ \E opts \in RetryOptionSets : RetryBegin("withConditionalRetry", opts)
    /\ UNCHANGED <<connVars, sessVars, nodeVars>>

FnResolves ==
    /\ \E v \in FnValues : RetryFnResolved(v)
    /\ UNCHANGED <<connVars, sessVars, nodeVars>>

FnRejects ==
    /\ \E m \in FnErrors : RetryFnRejected(m)
    /\ UNCHANGED <<connVars, sessVars, nodeVars>>

SleepElapses ==
    /\ RetrySleepDone
    /\ UNCHANGED <<connVars, sessVars, nodeVars>>

InitRetry == RetryInit /\ ConnIdle /\ SessionNew /\ NodeIdle

NextRetry ==
    \/ CallWithRetry
    \/ CallWithConditionalRetry
    \/ FnResolves
    \/ FnRejects
    \/ SleepElapses

SpecRetry == InitRetry /\ [][NextRetry]_vars

\* ------------------------------------------------------------------------
\* BambuLabMqttClient.connect / connectOnce
\* ------------------------------------------------------------------------
SerialNumber == "01P00A000000001"
reportTopic == "device/" \o SerialNumber \o "/report"

\* ErrorHelper.mqttConnectionTimeout(timeout)
mqttConnectionTimeout(timeout) ==
    "MQTT connection timeout after " \o ToString(timeout)
        \o "ms. Please check printer IP and network connection."

\* what the transport can report on its 'error' event; kind records what
\* actually happened, message is all the code sees
TransportErrors ==
    { [kind |-> "refused", message |-> "connect ECONNREFUSED 192.168.1.50:8883"],
      [kind |-> "auth", message |-> "Connection refused: Not authorized"],
      [kind |-> "auth", message |-> "Connection refused: Bad username or password"] }

\* err.message of a failed subscription
SubscribeErrors == {"Connection closed", "Subscribe error: Not authorized"}

\* what mqtt.connect can throw synchronously
CreateErrors == {"Missing protocol"}

ConnectOptions == [maxRetries |-> 2, onRetry |-> TRUE]

NewHandle == [state |-> "connecting", handshaked |-> FALSE, subRequestedBy |-> 0,
              subAcked |-> FALSE]

NewAttempt(h) ==
    [handle |-> h, promise |-> "pending", error |-> "", cause |-> "none",
     timer |-> TRUE, delivered |-> FALSE]

\* resolve() / reject(error) of the promise of attempt i: a settled promise
\* ignores later calls
Resolve(a) ==
    IF a.promise = "pending" THEN [a EXCEPT !.promise = "resolved"] ELSE a

Reject(a, message, cause) ==
    IF a.promise = "pending"
    THEN [a EXCEPT !.promise = "rejected", !.error = message, !.cause = cause]
    ELSE a

\* the body of connectOnce up to the registration of the handlers
ConnectOnceStart ==
    \/ /\ handles' = Append(handles, NewHandle)
       /\ client' = Len(handles) + 1
       /\ attempts' = Append(attempts, NewAttempt(Len(handles) + 1))
    \/ \E m \in CreateErrors :
          /\ attempts' = Append(attempts,
                 [NewAttempt(0) EXCEPT
                     !.promise = "rejected",
                     !.error = "Failed to create MQTT client: " \o m,
                     !.cause = "create",
                     !.timer = FALSE])
          /\ UNCHANGED <<handles, client>>

\* the attempt whose handlers are registered on handle h
AttemptOf(h) == CHOOSE i \in 1..Len(attempts) : attempts[i].handle = h

\* connect(): RetryHelper.withConditionalRetry(() => this.connectOnce(), ...)
Connect ==
    /\ RetryBegin("withConditionalRetry", ConnectOptions)
    /\ ConnectOnceStart
    /\ UNCHANGED <<sessVars, nodeVars>>

\* setTimeout callback of connectOnce
ConnectTimeoutFires ==
    \E i \in 1..Len(attempts) :
        /\ attempts[i].timer
        /\ handles' = IF client # 0
                      THEN [handles EXCEPT ![client].state = "ended"]
                      ELSE handles
        /\ attempts' = [attempts EXCEPT
               ![i] = [Reject(@, mqttConnectionTimeout(MQTT_CONNECTION), "timeout")
                          EXCEPT !.timer = FALSE]]
        /\ UNCHANGED <<client, retryVars, sessVars, nodeVars>>

\* this.client.on('connect', ...) as far as the attempt is concerned:
\* clearTimeout(timeout); the promise waits for the subscribe callback
OnConnect(a) ==
    [a EXCEPT !.timer = FALSE]

\* the broker completes the handshake on handle h
Handshake ==
    \E h \in 1..Len(handles) :
        /\ handles[h].state = "connecting"
        /\ attempts' = [attempts EXCEPT ![AttemptOf(h)] = OnConnect(@)]
        /\ handles' =
             LET hs == [handles EXCEPT ![h].state = "connected", ![h].handshaked = TRUE]
             IN  IF client # 0
                 THEN [hs EXCEPT ![client].subRequestedBy = AttemptOf(h)]
                 ELSE hs
        /\ UNCHANGED <<client, retryVars, sessVars, nodeVars>>

\* mutant of SubscribeCallback: err is not looked at
SubscribeCallback_IgnoreErr(a, failed, message) ==
    Resolve(a)

\* the callback handed to subscribe
SubscribeCallback(a, failed, message) ==
    IF failed
    THEN Reject(a, "Failed to subscribe to " \o reportTopic \o ": " \o message,
                "subscribe")
    ELSE Resolve(a)

\* the subscription on handle h is acknowledged
SubscribeAcked ==
    \E h \in 1..Len(handles) :
        /\ handles[h].state = "connected"
        /\ handles[h].subRequestedBy # 0
        /\ attempts' = [attempts EXCEPT
               ![handles[h].subRequestedBy] = SubscribeCallback(@, FALSE, "")]
        /\ handles' = [handles EXCEPT ![h].subRequestedBy = 0, ![h].subAcked = TRUE]
        /\ UNCHANGED <<client, retryVars, sessVars, nodeVars>>

\* the subscription on handle h fails
SubscribeFails ==
    \E h \in 1..Len(handles), m \in SubscribeErrors :
        /\ handles[h].state = "connected"
        /\ handles[h].subRequestedBy # 0
        /\ attempts' = [attempts EXCEPT
               ![handles[h].subRequestedBy] = SubscribeCallback(@, TRUE, m)]
        /\ handles' = [handles EXCEPT ![h].subRequestedBy = 0]
        /\ UNCHANGED <<client, retryVars, sessVars, nodeVars>>

\* this.client.on('error', ...): clearTimeout(timeout); reject(...)
TransportError ==
    \E h \in 1..Len(handles), e \in TransportErrors :
        /\ handles[h].state \in {"connecting", "connected"}
        /\ attempts[AttemptOf(h)].promise = "pending"
        /\ attempts' = [attempts EXCEPT
               ![AttemptOf(h)] =
                   [Reject(@, "MQTT connection error: " \o e.message, e.kind)
                       EXCEPT !.timer = FALSE]]
        /\ handles' = [handles EXCEPT ![h].state = "failed", ![h].subRequestedBy = 0]
        /\ UNCHANGED <<client, retryVars, sessVars, nodeVars>>

\* the await in the retry loop resumes with the settled promise of connectOnce
AwaitConnectOnce ==
    /\ rPc = "calling"
    /\ Len(attempts) = calls
    /\ attempts[calls].promise # "pending"
    /\ ~attempts[calls].delivered
    /\ IF attempts[calls].promise = "resolved"
       THEN RetryFnResolved("undefined")
       ELSE RetryFnRejected(attempts[calls].error)
    /\ attempts' = [attempts EXCEPT ![calls].delivered = TRUE]
    /\ UNCHANGED <<handles, client, sessVars, nodeVars>>

\* the back-off sleep ends and the loop calls connectOnce again
RetryConnect ==
    /\ RetrySleepDone
    /\ IF rPc' = "calling" THEN ConnectOnceStart ELSE UNCHANGED connVars
    /\ UNCHANGED <<sessVars, nodeVars>>

InitConnect == RetryInit /\ ConnIdle /\ SessionNew /\ NodeIdle

NextConnect ==
    \/ Connect
    \/ ConnectTimeoutFires
    \/ Handshake
    \/ SubscribeAcked
    \/ SubscribeFails
    \/ TransportError
    \/ AwaitConnectOnce
    \/ RetryConnect

SpecConnect == InitConnect /\ [][NextConnect]_vars

\* timers fire and awaits resume; nothing obliges the broker to answer
FairSpecConnect ==
    /\ SpecConnect
    /\ WF_vars(ConnectTimeoutFires)
    /\ WF_vars(AwaitConnectOnce)
    /\ WF_vars(RetryConnect)


\* ------------------------------------------------------------------------
\* BambuLabMqttClient: inbound messages
\* ------------------------------------------------------------------------
\* a payload that parses: one top-level variant key with its sequence_id,
\* and whether print.ams is present
DeviceMessages ==
    { [key |-> "print", sequence_id |-> "0", ams |-> FALSE],
      [key |-> "print", sequence_id |-> "7", ams |-> TRUE],
      [key |-> "pushing", sequence_id |-> "1735689600000", ams |-> FALSE] }

\* msg.<key>?.sequence_id
SeqUnder(msg, key) == IF msg.key = key THEN msg.sequence_id ELSE Undefined

\* msg.print?.ams !== undefined
HasAms(msg) == msg.key = "print" /\ msg.ams

\* the truthiness of a string or undefined
Truthy(str) == str # Undefined /\ str # ""

\* a handle through which the broker can deliver report messages
Delivering(h) == handles[h].state \in {"connected", "closing"} /\ handles[h].subAcked

\* mutant of PushBounded: the limit test is > instead of >=
PushBounded_OffByOne(buf, msg) ==
    Append(IF Len(buf) > MAX_MESSAGE_BUFFER THEN Tail(buf) ELSE buf, msg)

\* if (length >= MAX_MESSAGE_BUFFER) shift(); push(parsedMessage)
PushBounded(buf, msg) ==
    Append(IF Len(buf) >= MAX_MESSAGE_BUFFER THEN Tail(buf) ELSE buf, msg)

\* mutant of RecordParseError: a full history keeps its entries and drops
\* the new one
RecordParseError_KeepOldest(err) ==
    /\ lastParseError' = err
    /\ parseErrorHistory' =
         IF Len(parseErrorHistory) >= MAX_PARSE_ERRORS
         THEN parseErrorHistory
         ELSE Append(parseErrorHistory, err)

\* the catch block of the message handler
RecordParseError(err) ==
    /\ lastParseError' = err
    /\ parseErrorHistory' =
         LET h == Append(parseErrorHistory, err)
         IN  IF Len(h) > MAX_PARSE_ERRORS THEN Tail(h) ELSE h

\* mutant of OnMessage: the callback that was registered first stays the one
\* that is invoked
OnMessage_FirstCallback(topic, content, callbackThrows) ==
    LET msg == [key |-> content.key, sequence_id |-> content.sequence_id,
                ams |-> content.ams, n |-> Len(received) + 1]
        invoked == updateCallback # 0 /\ topic = reportTopic
    IN  /\ messageBuffer' = PushBounded(messageBuffer, msg)
        /\ received' = Append(received, msg)
        /\ callbackLog' = IF invoked
                          THEN Append(callbackLog, [callback |-> 1, n |-> msg.n])
                          ELSE callbackLog
        /\ IF invoked /\ callbackThrows
           THEN RecordParseError([source |-> "callback", n |-> msg.n, after |-> Len(received)])
           ELSE UNCHANGED <<lastParseError, parseErrorHistory>>
        /\ UNCHANGED <<updateCallback, badPayloads>>

\* this.client.on('message', (topic, message) => ...) for a payload that parses
OnMessage(topic, content, callbackThrows) ==
    LET msg == [key |-> content.key, sequence_id |-> content.sequence_id,
                ams |-> content.ams, n |-> Len(received) + 1]
        invoked == updateCallback # 0 /\ topic = reportTopic
    IN  /\ messageBuffer' = PushBounded(messageBuffer, msg)
        /\ received' = Append(received, msg)
        /\ callbackLog' = IF invoked
                          THEN Append(callbackLog, [callback |-> updateCallback, n |-> msg.n])
                          ELSE callbackLog
        /\ IF invoked /\ callbackThrows
           THEN RecordParseError([source |-> "callback", n |-> msg.n, after |-> Len(received)])
           ELSE UNCHANGED <<lastParseError, parseErrorHistory>>
        /\ UNCHANGED <<updateCallback, badPayloads>>

\* mutant of OnBadPayload: the handler also drops what is buffered
OnBadPayload_DropsBuffer ==
    /\ RecordParseError([source |-> "parse", n |-> badPayloads + 1,
                         after |-> Len(received)])
    /\ badPayloads' = badPayloads + 1
    /\ messageBuffer' = << >>
    /\ UNCHANGED <<received, callbackLog, updateCallback>>

\* the message handler for a payload on which JSON.parse throws
OnBadPayload ==
    /\ RecordParseError([source |-> "parse", n |-> badPayloads + 1,
                         after |-> Len(received)])
    /\ badPayloads' = badPayloads + 1
    /\ UNCHANGED <<messageBuffer, received, callbackLog, updateCallback>>

MessageArrives ==
    /\ Len(received) < MaxArrivals
    /\ \E h \in 1..Len(handles) : Delivering(h)
    /\ \E content \in DeviceMessages, throws \in BOOLEAN :
          /\ throws => updateCallback # 0
          /\ OnMessage(reportTopic, content, throws)
    /\ UNCHANGED <<nodeVars, retryVars, connVars, call, disc, published, apiCalls, clearedAt>>

BadPayloadArrives ==
    /\ badPayloads < MaxBadPayloads
    /\ \E h \in 1..Len(handles) : Delivering(h)
    /\ OnBadPayload
    /\ UNCHANGED <<nodeVars, retryVars, connVars, call, disc, published, apiCalls, clearedAt>>

\* ------------------------------------------------------------------------
\* BambuLabMqttClient.publishCommand / getStatus
\* ------------------------------------------------------------------------
MQTT_NOT_CONNECTED == "MQTT client is not connected"
commandResponseTimeout(timeout) ==
    "Command response timeout after " \o ToString(timeout) \o "ms"
statusTimeout(timeout) ==
    "Status request timeout after " \o ToString(timeout) \o "ms"

\* the commands a caller hands to publishCommand: the top-level key and the
\* sequence_id under it ("system_absent": { system: undefined })
Commands ==
    { [key |-> "print", sequence_id |-> "0"],
      [key |-> "system", sequence_id |-> "0"],
      [key |-> "gcode_line", sequence_id |-> "1"],
      [key |-> "system_absent", sequence_id |-> Undefined] }

\* Date.now().toString() at the time of the getStatus call
StatusSequenceId == "1735689600000"

\* mutant of commandSeqId: only print commands yield an identifier
commandSeqId_PrintOnly(command) ==
    IF command.key = "print" THEN command.sequence_id ELSE Undefined

\* const commandSeqId = 'print' in command ? ... : undefined
commandSeqId(command) ==
    IF command.key = "print" THEN command.sequence_id
    ELSE IF command.key = "pushing" THEN command.sequence_id
    ELSE IF command.key = "system" THEN command.sequence_id
    ELSE IF command.key = "gcode_line" THEN command.sequence_id
    ELSE Undefined

\* mutant of NotConnected: only the missing client is tested
NotConnected_ClientOnly == client = 0

\* !this.client || !this.client.connected
NotConnected == client = 0 \/ handles[client].state \notin {"connected", "closing"}

\* Array.prototype.find over the set of indices whose element passes the
\* test: the first such index, 0 when there is none
FirstIndex(passing) ==
    IF passing = {} THEN 0
    ELSE CHOOSE i \in passing : \A j \in passing : i <= j

\* the test of the find() in publishCommand
BearsSeqId(msg, seqId) ==
    \/ SeqUnder(msg, "print") = seqId
    \/ SeqUnder(msg, "pushing") = seqId
    \/ SeqUnder(msg, "system") = seqId
    \/ SeqUnder(msg, "gcode_line") = seqId

\* mutant of CommandResponseIn: the fallback is the oldest buffered message
CommandResponseIn_Oldest(buf, seqId) ==
    LET found == IF Truthy(seqId)
                 THEN FirstIndex({i \in 1..Len(buf) : BearsSeqId(buf[i], seqId)})
                 ELSE 0
    IN  IF found # 0 THEN buf[found] ELSE buf[1]

\* the response chosen by the poll callback of publishCommand
CommandResponseIn(buf, seqId) ==
    LET found == IF Truthy(seqId)
                 THEN FirstIndex({i \in 1..Len(buf) : BearsSeqId(buf[i], seqId)})
                 ELSE 0
    IN  IF found # 0 THEN buf[found] ELSE buf[Len(buf)]

\* mutant of StatusIn: the last buffered message, whatever it is
StatusIn_Last(buf, expectedSeqId) == buf[Len(buf)]

\* the status chosen by the poll callback of getStatus
StatusIn(buf, expectedSeqId) ==
    LET ams == FirstIndex({i \in 1..Len(buf) : HasAms(buf[i])})
        echo == FirstIndex({i \in 1..Len(buf) :
                               SeqUnder(buf[i], "pushing") = expectedSeqId})
    IN  IF ams # 0 THEN buf[ams]
        ELSE IF echo # 0 THEN buf[echo]
        ELSE buf[Len(buf)]

\* mutant of Cleanup: the interval is left running
Cleanup_TimeoutOnly(c) == [c EXCEPT !.timeout = FALSE]

\* cleanup(): clearTimeout(timeout); clearInterval(checkInterval)
Cleanup(c) == [c EXCEPT !.timeout = FALSE, !.interval = FALSE]

ResolveCall(c, msg) ==
    IF c.promise = "pending"
    THEN [c EXCEPT !.promise = "resolved", !.result = msg, !.settleCalls = @ + 1]
    ELSE [c EXCEPT !.settleCalls = @ + 1]

RejectCall(c, message) ==
    IF c.promise = "pending"
    THEN [c EXCEPT !.promise = "rejected", !.error = message, !.settleCalls = @ + 1]
    ELSE [c EXCEPT !.settleCalls = @ + 1]

\* mutant of PollCallback: the buffer-length guard is dropped
PollCallback_ResolveEmpty(c, buf) ==
    LET response == IF Len(buf) = 0 THEN NoMessage
                    ELSE IF c.kind = "getStatus" THEN StatusIn(buf, c.seqId)
                    ELSE CommandResponseIn(buf, c.seqId)
    IN  <<ResolveCall(Cleanup(c), response), << >> >>

\* the setInterval callback of publishCommand and of getStatus: the call
\* record and the buffer it leaves
PollCallback(c, buf) ==
    IF Len(buf) > 0
    THEN LET response == IF c.kind = "getStatus"
                         THEN StatusIn(buf, c.seqId)
                         ELSE CommandResponseIn(buf, c.seqId)
         IN  <<ResolveCall(Cleanup(c), response), << >> >>
    ELSE <<c, buf>>

\* the setTimeout callback of publishCommand and of getStatus
TimeoutCallback(c) ==
    RejectCall(Cleanup(c),
               IF c.kind = "getStatus"
               THEN statusTimeout(MQTT_RESPONSE)
               ELSE commandResponseTimeout(MQTT_RESPONSE))

NewCall(kind, waitForResponse, seqId) ==
    [NoCall EXCEPT !.kind = kind, !.waitForResponse = waitForResponse,
                   !.seqId = seqId, !.publishedAt = Len(received)]

\* mutant of BufferAtPublish: the buffer is kept
BufferAtPublish_Kept(waitForResponse, buf) == buf

\* if (waitForResponse) { this.messageBuffer = [] }: the buffer at the publish
BufferAtPublish(waitForResponse, buf) == IF waitForResponse THEN << >> ELSE buf

\* publishCommand(command, waitForResponse)
PublishCommand ==
    /\ apiCalls < MaxCalls
    /\ call.promise # "pending"
    /\ apiCalls' = apiCalls + 1
    /\ \E command \in Commands, waitForResponse \in BOOLEAN :
          LET c == NewCall("publishCommand", waitForResponse, commandSeqId(command))
          IN  IF NotConnected
              THEN /\ call' = [c EXCEPT !.promise = "rejected",
                                        !.error = MQTT_NOT_CONNECTED,
                                        !.settleCalls = 1]
                   /\ published' = << >>
                   /\ UNCHANGED <<messageBuffer, clearedAt>>
              ELSE /\ messageBuffer' = BufferAtPublish(waitForResponse, messageBuffer)
                   /\ clearedAt' = IF waitForResponse THEN Len(received) ELSE clearedAt
                   /\ published' = <<command>>
                   /\ call' = IF waitForResponse
                              THEN [c EXCEPT !.promise = "pending",
                                             !.timeout = TRUE, !.interval = TRUE]
                              ELSE [c EXCEPT !.promise = "resolved", !.settleCalls = 1]
    /\ UNCHANGED <<nodeVars, retryVars, connVars, updateCallback, lastParseError,
                   parseErrorHistory, disc, received, badPayloads, callbackLog>>

\* getStatus()
GetStatus ==
    /\ apiCalls < MaxCalls
    /\ call.promise # "pending"
    /\ apiCalls' = apiCalls + 1
    /\ LET c == NewCall("getStatus", TRUE, StatusSequenceId)
       IN  IF NotConnected
           THEN /\ call' = [c EXCEPT !.promise = "rejected",
                                     !.error = MQTT_NOT_CONNECTED,
                                     !.settleCalls = 1]
                /\ published' = << >>
                /\ UNCHANGED <<messageBuffer, clearedAt>>
           ELSE /\ messageBuffer' = << >>
                /\ clearedAt' = Len(received)
                /\ published' = <<[key |-> "pushing", sequence_id |-> StatusSequenceId]>>
                /\ call' = [c EXCEPT !.promise = "pending",
                                     !.timeout = TRUE, !.interval = TRUE]
    /\ UNCHANGED <<nodeVars, retryVars, connVars, updateCallback, lastParseError,
                   parseErrorHistory, disc, received, badPayloads, callbackLog>>

\* MESSAGE_POLL ms pass for the call in flight: its interval fires; when the
\* response window has elapsed its timeout fires as well, in either order
Tick ==
    /\ call.interval \/ call.timeout
    /\ call.elapsed < MQTT_RESPONSE
    /\ LET c == [call EXCEPT !.elapsed = @ + MESSAGE_POLL]
           polled == IF c.interval THEN PollCallback(c, messageBuffer)
                     ELSE <<c, messageBuffer>>
       IN  IF c.elapsed < MQTT_RESPONSE
           THEN /\ call' = polled[1]
                /\ messageBuffer' = polled[2]
           ELSE \/ /\ call' = IF c.timeout THEN TimeoutCallback(c) ELSE c
                   /\ messageBuffer' = messageBuffer
                \/ /\ call' = IF polled[1].timeout
                              THEN TimeoutCallback(polled[1])
                              ELSE polled[1]
                   /\ messageBuffer' = polled[2]
    /\ clearedAt' = IF messageBuffer' = messageBuffer THEN clearedAt ELSE Len(received)
    /\ UNCHANGED <<nodeVars, retryVars, connVars, updateCallback, lastParseError,
                   parseErrorHistory, disc, received, badPayloads, published,
                   callbackLog, apiCalls>>

\* ------------------------------------------------------------------------
\* Specification SpecWait: a connected session, its calls and its inbox
\* ------------------------------------------------------------------------
\* the state connect() leaves when the first attempt succeeds
Connected ==
    /\ rPc = "returned"
    /\ rMode = "withConditionalRetry"
    /\ rOpts = ConnectOptions
    /\ attempt = 0
    /\ calls = 1
    /\ rDelay = 0
    /\ rOutcome = Returned("undefined")
    /\ rTrace = <<TraceEvent("resolved", 1, "", 0)>>
    /\ handles = <<[NewHandle EXCEPT !.state = "connected", !.handshaked = TRUE,
                                     !.subAcked = TRUE]>>
    /\ client = 1
    /\ attempts = <<[NewAttempt(1) EXCEPT !.promise = "resolved", !.timer = FALSE,
                                          !.delivered = TRUE]>>

InitWait == Connected /\ SessionNew /\ NodeIdle

NextWait ==
    \/ PublishCommand
    \/ GetStatus
    \/ MessageArrives
    \/ BadPayloadArrives
    \/ Tick

SpecWait == InitWait /\ [][NextWait]_vars

FairSpecWait == SpecWait /\ WF_vars(Tick)


\* ------------------------------------------------------------------------
\* BambuLabMqttClient.subscribeToUpdates
\* ------------------------------------------------------------------------
\* subscribeToUpdates(callback) with a callback not registered before; the
\* callbacks are numbered in the order of their registration
SubscribeToUpdates ==
    /\ updateCallback < MaxCallbacks
    /\ client # 0
    /\ updateCallback' = updateCallback + 1
    /\ UNCHANGED <<nodeVars, retryVars, connVars, messageBuffer, lastParseError,
                   parseErrorHistory, call, disc, received, badPayloads,
                   published, callbackLog, apiCalls, clearedAt>>

\* ------------------------------------------------------------------------
\* Specification SpecInbox: a connected session, its update callbacks and
\* its inbox
\* ------------------------------------------------------------------------
InitInbox == Connected /\ SessionNew /\ NodeIdle

NextInbox ==
    \/ SubscribeToUpdates
    \/ MessageArrives
    \/ BadPayloadArrives

SpecInbox == InitInbox /\ [][NextInbox]_vars

\* ------------------------------------------------------------------------
\* Specification SpecPendingStatus: a getStatus() waiting for its response
\* on a session with an update callback, while payloads arrive
\* ------------------------------------------------------------------------
\* the state after connect(), subscribeToUpdates(cb) and the publish of
\* getStatus()
InitPendingStatus ==
    /\ Connected
    /\ messageBuffer = << >>
    /\ updateCallback = 1
    /\ lastParseError = NoError
    /\ parseErrorHistory = << >>
    /\ received = << >>
    /\ call = [NewCall("getStatus", TRUE, StatusSequenceId) EXCEPT
                   !.promise = "pending", !.timeout = TRUE, !.interval = TRUE]
    /\ disc = << >>
    /\ badPayloads = 0
    /\ published = <<[key |-> "pushing", sequence_id |-> StatusSequenceId]>>
    /\ callbackLog = << >>
    /\ apiCalls = 1
    /\ clearedAt = 0
    /\ NodeIdle

NextPendingStatus ==
    \/ MessageArrives
    \/ BadPayloadArrives
    \/ Tick

SpecPendingStatus == InitPendingStatus /\ [][NextPendingStatus]_vars

\* ------------------------------------------------------------------------
\* Specification SpecBuffer: a connected session under a burst of reports
\* ------------------------------------------------------------------------
\* the n-th periodic status report of the printer
StatusReport(n) == [key |-> "print", sequence_id |-> ToString(n), ams |-> TRUE]

BurstArrives ==
    /\ Len(received) < MaxBurst
    /\ \E h \in 1..Len(handles) : Delivering(h)
    /\ OnMessage(reportTopic, StatusReport(Len(received) + 1), FALSE)
    /\ UNCHANGED <<nodeVars, retryVars, connVars, call, disc, published, apiCalls, clearedAt>>

\* clearMessageBuffer()
ClearMessageBuffer ==
    /\ messageBuffer' = << >>
    /\ clearedAt' = Len(received)
    /\ UNCHANGED <<nodeVars, retryVars, connVars, updateCallback, lastParseError,
                   parseErrorHistory, call, disc, received, badPayloads,
                   published, callbackLog, apiCalls>>

InitBuffer == Connected /\ SessionNew /\ NodeIdle

NextBuffer ==
    \/ BurstArrives
    \/ ClearMessageBuffer

SpecBuffer == InitBuffer /\ [][NextBuffer]_vars

\* ------------------------------------------------------------------------
\* BambuLabMqttClient.disconnect / forceDisconnect
\* ------------------------------------------------------------------------
\* one disconnect() call: its promise, its local flag disconnected, its
\* timer, and the callback it handed to client.end(false, {}, cb)
NewDisconnect ==
    [promise |-> "pending", disconnected |-> FALSE, timeout |-> FALSE,
     callback |-> "none", path |-> "none"]

\* client.end(...) on the handle this.client refers to
EndClient(hs) == [hs EXCEPT ![client].state = "ended"]

\* this.client = null; this.messageBuffer = []
DropSession ==
    /\ client' = 0
    /\ messageBuffer' = << >>
    /\ clearedAt' = Len(received)

\* disconnect(): up to the return of the Promise executor
Disconnect ==
    /\ Len(disc) < MaxDisconnects
    /\ IF client = 0
       THEN /\ disc' = Append(disc, [NewDisconnect EXCEPT !.promise = "resolved",
                                                          !.path = "no client"])
            /\ UNCHANGED <<handles, client, messageBuffer, clearedAt>>
       ELSE \/ \* client.end(false, {}, cb) returns; cb is called later or never
               /\ disc' = Append(disc, [NewDisconnect EXCEPT !.timeout = TRUE,
                                                             !.callback = "pending"])
               /\ handles' = [handles EXCEPT ![client].state =
                                 IF @ = "ended" THEN "ended" ELSE "closing"]
               /\ UNCHANGED <<client, messageBuffer, clearedAt>>
            \/ \* client.end(false, {}, cb) throws: the catch block
               /\ disc' = Append(disc, [NewDisconnect EXCEPT !.promise = "resolved",
                                                             !.disconnected = TRUE,
                                                             !.path = "catch"])
               /\ handles' = EndClient(handles)
               /\ DropSession
    /\ UNCHANGED <<nodeVars, retryVars, attempts, updateCallback, lastParseError,
                   parseErrorHistory, call, received, badPayloads, published,
                   callbackLog, apiCalls>>

\* the callback handed to client.end(false, {}, cb) by the d-th disconnect()
GracefulEndCompletes ==
    \E d \in 1..Len(disc) :
        /\ disc[d].callback = "pending"
        /\ IF ~disc[d].disconnected
           THEN /\ disc' = [disc EXCEPT ![d].callback = "called",
                                        ![d].timeout = FALSE,
                                        ![d].disconnected = TRUE,
                                        ![d].promise = "resolved",
                                        ![d].path = "graceful"]
                /\ DropSession
           ELSE /\ disc' = [disc EXCEPT ![d].callback = "called"]
                /\ UNCHANGED <<client, messageBuffer, clearedAt>>
        /\ handles' = [h \in 1..Len(handles) |->
                          IF handles[h].state = "closing"
                          THEN [handles[h] EXCEPT !.state = "ended"]
                          ELSE handles[h]]
        /\ UNCHANGED <<nodeVars, retryVars, attempts, updateCallback, lastParseError,
                       parseErrorHistory, call, received, badPayloads, published,
                       callbackLog, apiCalls>>

\* the guard of the timer callback: if (!disconnected && this.client)
TimeoutForces(d) == ~disc[d].disconnected /\ client # 0

\* the setTimeout callback of the d-th disconnect(), GRACEFUL_DISCONNECT ms
\* after the call
DisconnectTimeoutFires ==
    \E d \in 1..Len(disc) :
        /\ disc[d].timeout
        /\ IF TimeoutForces(d)
           THEN /\ disc' = [disc EXCEPT ![d].timeout = FALSE,
                                        ![d].disconnected = TRUE,
                                        ![d].promise = "resolved",
                                        ![d].path = "forced"]
                /\ handles' = EndClient(handles)
                /\ DropSession
           ELSE /\ disc' = [disc EXCEPT ![d].timeout = FALSE]
                /\ UNCHANGED <<handles, client, messageBuffer, clearedAt>>
        /\ UNCHANGED <<nodeVars, retryVars, attempts, updateCallback, lastParseError,
                       parseErrorHistory, call, received, badPayloads, published,
                       callbackLog, apiCalls>>

\* forceDisconnect()
ForceDisconnect ==
    /\ apiCalls < MaxCalls
    /\ apiCalls' = apiCalls + 1
    /\ IF client # 0
       THEN /\ handles' = EndClient(handles)
            /\ DropSession
       ELSE UNCHANGED <<handles, client, messageBuffer, clearedAt>>
    /\ UNCHANGED <<nodeVars, retryVars, attempts, updateCallback, lastParseError,
                   parseErrorHistory, call, disc, received, badPayloads,
                   published, callbackLog>>

\* ------------------------------------------------------------------------
\* Specification SpecDisconnect: a connected session being closed
\* ------------------------------------------------------------------------
InitDisconnect == Connected /\ SessionNew /\ NodeIdle

NextDisconnect ==
    \/ MessageArrives
    \/ Disconnect
    \/ GracefulEndCompletes
    \/ DisconnectTimeoutFires
    \/ ForceDisconnect

SpecDisconnect == InitDisconnect /\ [][NextDisconnect]_vars

\* timers fire; whether and when the transport calls the end callback is up
\* to the transport
FairSpecDisconnect == SpecDisconnect /\ WF_vars(DisconnectTimeoutFires)

\* ------------------------------------------------------------------------
\* Properties of publishCommand / getStatus
\* ------------------------------------------------------------------------
\* the latest call published its request and waits for a response
Awaited == call.waitForResponse /\ published # << >>

\* the messages that arrived after the latest call published its request
ArrivedSincePublish == { i \in 1..Len(received) : i > call.publishedAt }

\* C1: a publishCommand(command, true) whose command carries an identifier,
\* and for which a message bearing that identifier arrives inside the
\* response window (the clock of a call stops when it settles, so
\* call.elapsed < MQTT_RESPONSE), resolves with that message and with no other.
C1_ResolvesWithMatchingMessage ==
    ( /\ call.kind = "publishCommand"
      /\ Awaited
      /\ Truthy(call.seqId)
      /\ call.elapsed < MQTT_RESPONSE
      /\ call.promise = "resolved"
      /\ \E i \in ArrivedSincePublish : BearsSeqId(received[i], call.seqId) )
    => BearsSeqId(call.result, call.seqId)

\* C3: a publishCommand(command, true) or getStatus() after whose publish no
\* parseable message has arrived is pending until the response window has
\* elapsed and is then rejected with the response-timeout error; it is never
\* resolved, and no call is settled more than once.
C3_TimeoutWithoutMessages ==
    /\ call.settleCalls <= 1
    /\ (Awaited /\ call.promise = "resolved") =>
          /\ ArrivedSincePublish # {}
          /\ call.result.n \in ArrivedSincePublish
    /\ (Awaited /\ ArrivedSincePublish = {}) =>
          IF call.elapsed < MQTT_RESPONSE
          THEN call.promise = "pending" /\ call.settleCalls = 0
          ELSE /\ call.promise = "rejected"
               /\ call.settleCalls = 1
               /\ ~call.timeout /\ ~call.interval
               /\ call.error = IF call.kind = "getStatus"
                               THEN "Status request timeout after 30000ms"
                               ELSE "Command response timeout after 30000ms"

\* C3 witness: a publishCommand wait that saw only an unparseable payload and
\* was rejected when the window elapsed
C3_Witness ==
    /\ call.kind = "publishCommand"
    /\ Awaited
    /\ ArrivedSincePublish = {}
    /\ badPayloads > 0
    /\ call.elapsed = MQTT_RESPONSE
    /\ call.promise = "rejected"


\* ------------------------------------------------------------------------
\* BambuLab.execute
\* ------------------------------------------------------------------------
\* the values of the node parameter 'resource' ("other": none of the known)
Resources == {"print", "status", "control", "file", "camera", "other"}

\* mutant of NeedsConnect: the flag mqttConnected is not consulted
NeedsConnect_EveryItem(resource, mqttConnected) ==
    resource \in {"print", "status", "control"}

\* (resource === 'print' || ... 'status' || ... 'control') && !mqttConnected
NeedsConnect(resource, mqttConnected) ==
    resource \in {"print", "status", "control"} /\ ~mqttConnected

\* mutant of Finally: only the messaging session is disconnected
Finally_MqttOnly(e) == [e EXCEPT !.mqttDisconnects = @ + 1]

\* finally { mqttClient.disconnect(); ftpClient.disconnect(); }
Finally(e) == [e EXCEPT !.mqttDisconnects = @ + 1, !.ftpDisconnects = @ + 1]

\* execute() up to the first iteration of the loop over the items
Execute ==
    /\ exec.pc = "idle"
    /\ \E n \in 0..MaxItems, continueOnFail \in BOOLEAN :
         \E items \in [1..n -> Resources] :
            LET e == [exec EXCEPT !.items = items, !.continueOnFail = continueOnFail]
            IN  exec' = IF n = 0
                        THEN Finally([e EXCEPT !.pc = "returned"])
                        ELSE [e EXCEPT !.pc = "loop", !.i = 1]
    /\ UNCHANGED <<retryVars, connVars, sessVars, commands, parser, helperVars>>

\* one iteration of the loop: connect() if needed, the operation of the item,
\* the catch block; connect() and the operation resolve or reject
ExecuteItem ==
    /\ exec.pc = "loop"
    /\ \E connectOk, operationOk \in BOOLEAN :
         LET resource == exec.items[exec.i]
             connecting == NeedsConnect(resource, exec.mqttConnected)
             failure == IF connecting /\ ~connectOk THEN "connect failed"
                        ELSE IF resource = "other" THEN "Unknown resource"
                        ELSE IF ~operationOk THEN "operation failed"
                        ELSE ""
             e1 == [exec EXCEPT
                      !.connects = IF connecting
                                   THEN Append(@, [item |-> exec.i, ok |-> connectOk])
                                   ELSE @,
                      !.mqttConnected = @ \/ (connecting /\ connectOk)]
             e2 == [e1 EXCEPT !.returnData =
                      Append(@, [item |-> exec.i, error |-> failure])]
             next(e) == IF exec.i = Len(exec.items)
                        THEN Finally([e EXCEPT !.pc = "returned"])
                        ELSE [e EXCEPT !.i = @ + 1]
         IN  /\ ~connecting => connectOk
             /\ (connecting /\ ~connectOk) \/ resource = "other" => operationOk
             /\ exec' = IF failure = "" \/ exec.continueOnFail
                        THEN next(e2)
                        ELSE Finally([e1 EXCEPT !.pc = "thrown", !.error = failure])
    /\ UNCHANGED <<retryVars, connVars, sessVars, commands, parser, helperVars>>

\* ------------------------------------------------------------------------
\* Specification SpecExecute: one execute() invocation over its items
\* ------------------------------------------------------------------------
InitExecute == RetryInit /\ ConnIdle /\ SessionNew /\ NodeIdle

NextExecute ==
    \/ Execute
    \/ ExecuteItem

SpecExecute == InitExecute /\ [][NextExecute]_vars

\* ------------------------------------------------------------------------
\* BambuLabCommands
\* ------------------------------------------------------------------------
\* mutant of Built: the counter is not advanced
Built_SameId(c, invocation, command) ==
    [c EXCEPT !.ids = Append(@, ToString(c.sequenceId)),
              !.call = invocation, !.last = command]

\* the instance after a builder returned command, having called
\* getNextSequenceId() once: (this.sequenceId++).toString()
Built(c, invocation, command) ==
    [c EXCEPT !.sequenceId = @ + 1,
              !.ids = Append(@, ToString(c.sequenceId)),
              !.call = invocation, !.last = command]

\* String.prototype.startsWith
StartsWith(str, prefix) ==
    Len(str) >= Len(prefix) /\ SubSeq(str, 1, Len(prefix)) = prefix

\* mutant of fileUrl: the prefix is added to every file name
fileUrl_AlwaysPrefixed(fileName) == "file:///sdcard/" \o fileName

\* const fileUrl = fileName.startsWith('file:///') ? fileName : ...
fileUrl(fileName) ==
    IF StartsWith(fileName, "file:///") THEN fileName
    ELSE "file:///sdcard/" \o fileName

\* const displayName = fileName.split('/').pop() || fileName
displayName(fileName) ==
    LET slashes == { i \in 1..Len(fileName) : CharAt(fileName, i) = "/" }
        last == IF slashes = {} THEN 0
                ELSE CHOOSE i \in slashes : \A j \in slashes : j <= i
        tail == SubSeq(fileName, last + 1, Len(fileName))
    IN  IF tail = "" THEN fileName ELSE tail

\* the command startPrint returns for the identifier id
startPrint(fileName, options, id) ==
    [print |->
       [sequence_id |-> id, command |-> "project_file",
        param |-> "Metadata/plate_1.gcode",
        project_id |-> "", profile_id |-> "", task_id |-> "", subtask_id |-> "",
        url |-> fileUrl(fileName), file |-> "",
        subtask_name |-> displayName(fileName),
        bed_type |-> "auto",
        bed_leveling |-> OptionOr(options, "bedLeveling", TRUE),
        flow_cali |-> OptionOr(options, "flowCalibration", FALSE),
        vibration_cali |-> OptionOr(options, "vibrationCalibration", TRUE),
        layer_inspect |-> OptionOr(options, "layerInspect", FALSE),
        timelapse |-> OptionOr(options, "timelapse", FALSE),
        use_ams |-> OptionOr(options, "useAMS", TRUE),
        ams_mapping |-> OptionOr(options, "amsMapping", <<0>>)]]

\* mutant of clampSpeed: only the lower limit is applied
clampSpeed_LowerOnly(speed) == IF speed < 50 THEN 50 ELSE speed

\* Math.max(50, Math.min(166, speed))
clampSpeed(speed) ==
    LET capped == IF speed < 166 THEN speed ELSE 166
    IN  IF capped > 50 THEN capped ELSE 50

\* file names handed to startPrint
FileNames ==
    { "model.gcode", "file:///custom/path/model.gcode", "cache/model.3mf",
      "file://host/model.3mf", "prints/" }

\* option objects handed to startPrint; the record with the single field
\* "none" stands for an omitted options argument
PrintOptionSets ==
    { [none |-> TRUE],
      [useAMS |-> FALSE],
      [bedLeveling |-> TRUE, flowCalibration |-> FALSE],
      [amsMapping |-> << >>],
      [bedLeveling |-> FALSE, flowCalibration |-> TRUE,
       vibrationCalibration |-> FALSE, layerInspect |-> TRUE,
       timelapse |-> TRUE, useAMS |-> FALSE, amsMapping |-> <<2, 0>>] }

\* speeds handed to setSpeed
SpeedInputs == {-5, 0, 10, 49, 50, 51, 100, 165, 166, 167, 200, 1000}

\* the builders that take no argument: their variant key and command
PlainBuilders ==
    { [builder |-> "pausePrint", key |-> "print", command |-> "pause"],
      [builder |-> "resumePrint", key |-> "print", command |-> "resume"],
      [builder |-> "stopPrint", key |-> "print", command |-> "stop"],
      [builder |-> "getPushAll", key |-> "pushing", command |-> "pushall"],
      [builder |-> "startPushing", key |-> "pushing", command |-> "start"],
      [builder |-> "stopPushing", key |-> "pushing", command |-> "stop"] }

\* the G-code builders: each calls sendGcode(gcode, param)
GcodeCalls ==
    { [builder |-> "homeAxes", gcode |-> "G28", param |-> ""],
      [builder |-> "emergencyStop", gcode |-> "M112", param |-> ""],
      [builder |-> "resumeFilamentLoad", gcode |-> "M621", param |-> "S255"],
      [builder |-> "sendGcode", gcode |-> "M104", param |-> "S200"] }

\* startPrint(fileName, options)
StartPrint ==
    /\ Len(commands.ids) < MaxBuilt
    /\ \E fileName \in FileNames, options \in PrintOptionSets :
          commands' = Built(commands,
                            [builder |-> "startPrint", fileName |-> fileName,
                             options |-> options],
                            startPrint(fileName, options, ToString(commands.sequenceId)))
    /\ UNCHANGED <<retryVars, connVars, sessVars, exec, parser, helperVars>>

\* pausePrint(), resumePrint(), stopPrint(), getPushAll(), startPushing(),
\* stopPushing()
BuildPlain ==
    /\ Len(commands.ids) < MaxBuilt
    /\ \E b \in PlainBuilders :
          LET id == ToString(commands.sequenceId)
              body == IF b.builder = "getPushAll"
                      THEN [sequence_id |-> id, command |-> b.command, push_target |-> 1]
                      ELSE [sequence_id |-> id, command |-> b.command]
          IN  commands' = Built(commands, [builder |-> b.builder],
                                IF b.key = "print" THEN [print |-> body]
                                ELSE [pushing |-> body])
    /\ UNCHANGED <<retryVars, connVars, sessVars, exec, parser, helperVars>>

\* setLED(node, mode) with the default on and off times
SetLED ==
    /\ Len(commands.ids) < MaxBuilt
    /\ \E node \in {"chamber_light", "work_light", "logo_led"},
          mode \in {"on", "off", "flashing"} :
          commands' = Built(commands, [builder |-> "setLED"],
                            [system |->
                               [sequence_id |-> ToString(commands.sequenceId),
                                command |-> "ledctrl", led_node |-> node,
                                led_mode |-> mode, led_on_time |-> 500,
                                led_off_time |-> 500]])
    /\ UNCHANGED <<retryVars, connVars, sessVars, exec, parser, helperVars>>

\* sendGcode(gcode, param) and the builders that delegate to it
SendGcode ==
    /\ Len(commands.ids) < MaxBuilt
    /\ \E g \in GcodeCalls :
          commands' = Built(commands, [builder |-> g.builder],
                            [gcode_line |->
                               [sequence_id |-> ToString(commands.sequenceId),
                                command |-> g.gcode, param |-> g.param]])
    /\ UNCHANGED <<retryVars, connVars, sessVars, exec, parser, helperVars>>

\* setSpeed(speed)
SetSpeed ==
    /\ Len(commands.ids) < MaxBuilt
    /\ \E speed \in SpeedInputs :
          commands' = Built(commands, [builder |-> "setSpeed", speed |-> speed],
                            [system |->
                               [sequence_id |-> ToString(commands.sequenceId),
                                command |-> "print_speed",
                                param |-> ToString(clampSpeed(speed))]])
    /\ UNCHANGED <<retryVars, connVars, sessVars, exec, parser, helperVars>>

\* resetSequenceId()
ResetSequenceId ==
    /\ commands' = [commands EXCEPT !.sequenceId = 0, !.ids = << >>,
                                    !.call = [builder |-> "resetSequenceId"]]
    /\ UNCHANGED <<retryVars, connVars, sessVars, exec, parser, helperVars>>

\* ------------------------------------------------------------------------
\* Specification SpecCommands: one BambuLabCommands instance
\* ------------------------------------------------------------------------
InitCommands == RetryInit /\ ConnIdle /\ SessionNew /\ NodeIdle

NextCommands ==
    \/ StartPrint
    \/ BuildPlain
    \/ SetLED
    \/ SendGcode
    \/ SetSpeed
    \/ ResetSequenceId

SpecCommands == InitCommands /\ [][NextCommands]_vars

\* ------------------------------------------------------------------------
\* FilamentProfileParser
\* ------------------------------------------------------------------------
\* a directive that does not occur in the header
Absent == "absent"

\* String.prototype.trim, for values padded with spaces
Trim(str) ==
    LET solid == { i \in 1..Len(str) : CharAt(str, i) # " " }
    IN  IF solid = {} THEN ""
        ELSE SubSeq(str, CHOOSE i \in solid : \A j \in solid : i <= j,
                         CHOOSE i \in solid : \A j \in solid : j <= i)

\* String.prototype.split for a separator of one character: the pieces
\* between consecutive occurrences of the separator
Split(str, sep) ==
    LET at == { i \in 1..Len(str) : CharAt(str, i) = sep }
        n == Cardinality(at)
        Cut(k) == IF k = 0 THEN 0
                  ELSE IF k = n + 1 THEN Len(str) + 1
                  ELSE CHOOSE p \in at : Cardinality({ q \in at : q <= p }) = k
    IN  [k \in 1..(n + 1) |-> SubSeq(str, Cut(k - 1) + 1, Cut(k) - 1)]

\* the value of one decimal digit
DigitValue(char) == CHOOSE v \in 0..9 : CharAt("0123456789", v + 1) = char

\* the value of a string of decimal digits
RECURSIVE DigitsValue(_)
DigitsValue(digits) ==
    IF digits = "" THEN 0
    ELSE 10 * DigitsValue(SubSeq(digits, 1, Len(digits) - 1))
         + DigitValue(CharAt(digits, Len(digits)))

\* the length of the longest prefix of decimal digits
DigitPrefixLength(body) ==
    LET lengths == { k \in 0..Len(body) :
                       \A j \in 1..k : \E v \in 1..10 :
                           CharAt("0123456789", v) = CharAt(body, j) }
    IN  CHOOSE k \in lengths : \A m \in lengths : m <= k

\* the number read from the first n characters of body, NaN when n is 0
PrefixNumber(body, n, sign) ==
    IF n = 0 THEN [nan |-> TRUE, value |-> 0]
    ELSE [nan |-> FALSE, value |-> sign * DigitsValue(SubSeq(body, 1, n))]

\* parseInt on a string without leading blanks
ParseTrimmed(t, body) ==
    PrefixNumber(body, DigitPrefixLength(body),
                 IF t # body /\ CharAt(t, 1) = "-" THEN 0 - 1 ELSE 1)

\* a string without its sign character
Unsigned(t) ==
    IF Len(t) > 0 /\ CharAt(t, 1) \in {"-", "+"} THEN SubSeq(t, 2, Len(t)) ELSE t

\* parseInt(str, 10): leading blanks, an optional sign, then the longest
\* prefix of decimal digits; NaN when that prefix is empty
parseInt(str) == ParseTrimmed(Trim(str), Unsigned(Trim(str)))

\* map((s) => s.trim()).filter((s) => s !== '')
TrimmedEntries(pieces) ==
    LET NotEmpty(entry) == entry # ""
    IN  SelectSeq([i \in 1..Len(pieces) |-> Trim(pieces[i])], NotEmpty)

\* the slots of the entries, or the error of the first entry that is NaN or
\* outside 1..4
CheckedSlots(entries) ==
    LET bad == { i \in 1..Len(entries) :
                   \/ parseInt(entries[i]).nan
                   \/ parseInt(entries[i]).value < 1
                   \/ parseInt(entries[i]).value > 4 }
    IN  IF bad # {}
        THEN [error |-> "Invalid AMS slot number: \""
                        \o entries[CHOOSE i \in bad : \A j \in bad : i <= j]
                        \o "\". Must be 1-4 for A1 series.",
              slots |-> << >>]
        ELSE IF entries = << >>
        THEN [error |-> "No valid slot numbers found in \"; filament:\" line.",
              slots |-> << >>]
        ELSE [error |-> "",
              slots |-> [i \in 1..Len(entries) |-> parseInt(entries[i]).value]]

\* parseSlotUsage(value): the slots, or the error of the first bad entry
parseSlotUsage(value) == CheckedSlots(TrimmedEntries(Split(value, ",")))

\* array[index] || fallback, for an array that may not have been set
ElementOr(array, index, fallback) ==
    IF array # Absent /\ index + 1 <= Len(array) /\ array[index + 1] # ""
    THEN array[index + 1] ELSE fallback

\* mutant of profileIndex: the slot number taken as the index
profileIndex_OneBased(slotNumber) == slotNumber

\* the 1-indexed slot as 0-indexed profile index (and tray id)
profileIndex(slotNumber) == slotNumber - 1

Failure(message) ==
    [error |-> message, profiles |-> << >>, detectedMapping |-> << >>,
     totalEmbedded |-> 0]

\* the validation and the profile loop of parseGcodeHeader, for the outcome
\* of the "; filament:" line and the number of embedded types
BuildProfiles(header, usage, total) ==
    LET beyond == { i \in 1..Len(usage.slots) :
                      profileIndex(usage.slots[i]) >= total }
    IN  IF usage.error # "" THEN Failure(usage.error)
        ELSE IF usage.slots = << >>
        THEN Failure("Failed to parse gcode: \"; filament:\" line not found in header. This may not be a valid Bambu Studio sliced file.")
        ELSE IF total = 0
        THEN Failure("Failed to parse gcode: \"; filament_type =\" line not found in header.")
        ELSE IF beyond # {}
        THEN Failure("Invalid profile index "
                     \o ToString(profileIndex(usage.slots[CHOOSE i \in beyond : \A j \in beyond : i <= j]))
                     \o " for slot "
                     \o ToString(usage.slots[CHOOSE i \in beyond : \A j \in beyond : i <= j])
                     \o ". Only " \o ToString(total) \o " profiles embedded in file.")
        ELSE [error |-> "",
              profiles |-> [i \in 1..Len(usage.slots) |->
                  [index |-> profileIndex(usage.slots[i]),
                   type |-> ElementOr(header.types, profileIndex(usage.slots[i]), "UNKNOWN"),
                   colour |-> ElementOr(header.colours, profileIndex(usage.slots[i]), "#FFFFFF"),
                   name |-> ElementOr(header.names, profileIndex(usage.slots[i]), "Unknown Profile"),
                   slotNumber |-> usage.slots[i],
                   trayId |-> profileIndex(usage.slots[i])]],
              detectedMapping |-> [i \in 1..Len(usage.slots) |-> profileIndex(usage.slots[i])],
              totalEmbedded |-> total]

\* parseGcodeHeader for a header with the directives
\* "; filament:" (header.filament), "; filament_type =" (header.types),
\* "; filament_colour =" (header.colours), "; filament_settings_id ="
\* (header.names), the three lists already split and trimmed
parseGcodeHeader(header) ==
    BuildProfiles(header,
                  IF header.filament = Absent
                  THEN [error |-> "", slots |-> << >>]
                  ELSE parseSlotUsage(header.filament),
                  IF header.types = Absent THEN 0 ELSE Len(header.types))

\* values of the "; filament:" directive
SlotValues ==
    { "1", "2", "4", "1,2", "2,4", "1,2,3,4", " 1 , 2", "3,1", "1,,2", "",
      "1,5", "0", "-1,2", "x", "2.5", "1,3rd" }

\* the embedded material lists of a five-material project
EmbeddedTypes == <<"PETG", "PETG", "PLA", "PLA", "TPU">>
EmbeddedColours == <<"#515151", "#000000", "#68724D", "#042F56", "#2850E0">>
EmbeddedNames == <<"Bambu PETG HF", "Bambu PETG HF", "Bambu PLA Matte",
                   "Bambu PLA Matte", "Polymaker TPU 95A">>

\* the header with the "; filament:" value and the first n embedded
\* materials, with or without the colour and name lists
HeaderOf(filament, n, rest) ==
    [filament |-> filament,
     types |-> IF n = 0 THEN Absent ELSE SubSeq(EmbeddedTypes, 1, n),
     colours |-> IF rest /\ n > 0 THEN SubSeq(EmbeddedColours, 1, n) ELSE Absent,
     names |-> IF rest /\ n > 0 THEN SubSeq(EmbeddedNames, 1, n) ELSE Absent]

\* parseGcodeHeader(gcodeContent) for a header made of the directives drawn
ParseGcodeHeader ==
    /\ parser.pc = "idle"
    /\ \E filament \in SlotValues \cup {Absent}, n \in 0..5, rest \in BOOLEAN :
          parser' = [pc |-> "done", header |-> HeaderOf(filament, n, rest),
                     outcome |-> parseGcodeHeader(HeaderOf(filament, n, rest))]
    /\ UNCHANGED <<retryVars, connVars, sessVars, exec, commands, helperVars>>

\* ------------------------------------------------------------------------
\* Specification SpecParser: one call of the parser on a header
\* ------------------------------------------------------------------------
InitParser == RetryInit /\ ConnIdle /\ SessionNew /\ NodeIdle

NextParser == ParseGcodeHeader

SpecParser == InitParser /\ [][NextParser]_vars

\* ------------------------------------------------------------------------
\* FilamentMatcher
\* ------------------------------------------------------------------------
UpperChar(c) ==
    IF \E i \in 1..26 : SubSeq(LowerLetters, i, i) = c
    THEN SubSeq(UpperLetters, CHOOSE j \in 1..26 : SubSeq(LowerLetters, j, j) = c,
                CHOOSE j \in 1..26 : SubSeq(LowerLetters, j, j) = c)
    ELSE c

\* the string made of a sequence of characters
RECURSIVE Join(_)
Join(chars) == IF chars = << >> THEN "" ELSE Head(chars) \o Join(Tail(chars))

\* String.prototype.toUpperCase
toUpperCase(str) == Join([i \in 1..Len(str) |-> UpperChar(CharAt(str, i))])

\* replace(/^#/, '')
StripHash(str) ==
    IF Len(str) > 0 /\ CharAt(str, 1) = "#" THEN SubSeq(str, 2, Len(str)) ELSE str

\* replace(/\s+/g, '')
StripSpaces(str) ==
    LET Solid(c) == c # " "
    IN  Join(SelectSeq([i \in 1..Len(str) |-> CharAt(str, i)], Solid))

\* the alpha channel cut off: 8 or more characters are cut to the first 6
StripAlpha(str) == IF Len(str) >= 8 THEN SubSeq(str, 1, 6) ELSE str

\* mutant of normalizeColor: the leading # is looked for before trimming
normalizeColor_HashFirst(color) ==
    StripAlpha(StripSpaces(toUpperCase(Trim(StripHash(color)))))

\* FilamentMatcher.normalizeColor
normalizeColor(color) ==
    StripAlpha(StripSpaces(StripHash(toUpperCase(Trim(color)))))

\* FilamentMatcher.normalizeType
normalizeType(type) == toUpperCase(Trim(type))

\* str || fallback
StringOr(str, fallback) == IF str = "" THEN fallback ELSE str

\* mutant of TrayIdOf: the id of every tray is taken as 0
TrayIdOf_Zero(tray) == 0

\* parseInt(tray.id || '0', 10)
TrayIdOf(tray) == parseInt(StringOr(tray.id, "0")).value

\* mutant of NoBay: only a missing bay counts, not one without trays
NoBay_MissingOnly(status) == status.bay # "units"

\* the units of the bay in status; a unit may come without a tray list
UnitsOf(status) == IF status.bay = "units" THEN status.units ELSE << >>

\* amsData.ams.flatMap((unit) => unit.tray || [])
RECURSIVE FlatTrays(_)
FlatTrays(units) ==
    IF units = << >> THEN << >>
    ELSE (IF "tray" \in DOMAIN Head(units) THEN Head(units).tray ELSE << >>)
         \o FlatTrays(Tail(units))

\* the two early returns: print.ams missing or without units, or units
\* that hold no tray
NoBay(status) == FlatTrays(UnitsOf(status)) = << >>

\* { ...profile, matchedSlot, matchedTrayId, matchQuality, currentColor, currentType }
Matched(profile, trayId, color, type) ==
    [index |-> profile.index, type |-> profile.type, colour |-> profile.colour,
     name |-> profile.name, slotNumber |-> profile.slotNumber,
     trayId |-> profile.trayId, matchedSlot |-> trayId + 1,
     matchedTrayId |-> trayId, matchQuality |-> "exact",
     currentColor |-> color, currentType |-> type]

\* the result for the external spool
ExternalSpool(profiles) ==
    [error |-> "",
     mapping |-> [i \in 1..Len(profiles) |-> 0],
     matches |-> [i \in 1..Len(profiles) |->
                    Matched(profiles[i], 0, profiles[i].colour, profiles[i].type)],
     amsDetected |-> FALSE, totalSlots |-> 1]

\* the test of findExactMatch: type AND color, both normalized
ExactMatch(profile, tray) ==
    /\ normalizeType(tray.tray_type) = normalizeType(profile.type)
    /\ normalizeColor(tray.tray_color) = normalizeColor(profile.colour)

\* mutant of findExactMatch: the last matching tray
findExactMatch_Last(profile, trays) ==
    LET passing == { i \in 1..Len(trays) : ExactMatch(profile, trays[i]) }
    IN  IF passing = {} THEN 0
        ELSE CHOOSE i \in passing : \A j \in passing : j <= i

\* FilamentMatcher.findExactMatch: the position of the first matching tray,
\* 0 for null
findExactMatch(profile, trays) ==
    FirstIndex({ i \in 1..Len(trays) : ExactMatch(profile, trays[i]) })

\* mutant of formatAvailableFilaments: the trays are listed without a color
formatAvailableFilaments_NoColor(trays) ==
    Join([i \in 1..Len(trays) |->
            (IF i = 1 THEN "" ELSE ", ")
            \o "Slot " \o ToString(TrayIdOf(trays[i]) + 1) \o ": "
            \o StringOr(trays[i].tray_type, "Unknown")])

\* FilamentMatcher.formatAvailableFilaments
formatAvailableFilaments(trays) ==
    IF trays = << >> THEN "No filaments loaded"
    ELSE Join([i \in 1..Len(trays) |->
                 (IF i = 1 THEN "" ELSE ", ")
                 \o "Slot " \o ToString(TrayIdOf(trays[i]) + 1) \o ": "
                 \o StringOr(trays[i].tray_type, "Unknown")
                 \o " (" \o StringOr(trays[i].tray_color, "Unknown") \o ")"])

\* the error thrown for a profile without a match
NotFound(profile, trays) ==
    [error |-> "Filament not found in AMS: Need " \o profile.type \o " ("
               \o profile.colour \o ") for profile " \o ToString(profile.index)
               \o ". Available: " \o formatAvailableFilaments(trays),
     mapping |-> << >>, matches |-> << >>, amsDetected |-> FALSE, totalSlots |-> 0]

\* the match of a profile that has one
MatchOf(profile, tray) ==
    Matched(profile, TrayIdOf(tray), tray.tray_color, tray.tray_type)

\* mutant of MatchAll: a profile without a match is left out of the result
MatchAll_SkipUnmatched(profiles, trays) ==
    LET found == SelectSeq([i \in 1..Len(profiles) |->
                              findExactMatch(profiles[i], trays)],
                           LAMBDA at : at # 0)
    IN  [error |-> "",
         mapping |-> [i \in 1..Len(found) |-> TrayIdOf(trays[found[i]])],
         matches |-> [i \in 1..Len(found) |-> MatchOf(profiles[i], trays[found[i]])],
         amsDetected |-> TRUE, totalSlots |-> Len(trays)]

\* the strict loop over the profiles: the error of the first profile without
\* a match, else the matches in the order of the profiles
MatchAll(profiles, trays) ==
    LET unmatched == { i \in 1..Len(profiles) : findExactMatch(profiles[i], trays) = 0 }
    IN  IF unmatched # {}
        THEN NotFound(profiles[FirstIndex(unmatched)], trays)
        ELSE [error |-> "",
              mapping |-> [i \in 1..Len(profiles) |->
                  TrayIdOf(trays[findExactMatch(profiles[i], trays)])],
              matches |-> [i \in 1..Len(profiles) |->
                  MatchOf(profiles[i], trays[findExactMatch(profiles[i], trays)])],
              amsDetected |-> TRUE, totalSlots |-> Len(trays)]

\* FilamentMatcher.matchProfilesToAMS
matchProfilesToAMS(profiles, status) ==
    IF NoBay(status) THEN ExternalSpool(profiles)
    ELSE MatchAll(profiles, FlatTrays(UnitsOf(status)))

\* the filaments a sliced file asks for: type and colour as written there
ProfileShapes ==
    { <<"PLA", "FF0000">>, <<"pla", " #ff0000">>, <<"PETG", "#000000">>,
      <<"TPU", "#000000">> }

\* createProfile(index, type, colour)
createProfile(index, shape) ==
    [index |-> index, type |-> shape[1], colour |-> shape[2],
     name |-> shape[1] \o " " \o shape[2], slotNumber |-> index + 1,
     trayId |-> index]

\* the trays a bay reports; "" stands for a field that is not reported
TrayShapes ==
    { [id |-> "0", tray_type |-> "PETG", tray_color |-> "#515151"],
      [id |-> "1", tray_type |-> "PETG", tray_color |-> "000000FF"],
      [id |-> "2", tray_type |-> "PLA", tray_color |-> "#ff0000ff"],
      [id |-> "3", tray_type |-> "PLA", tray_color |-> "#FF0000"],
      [id |-> "", tray_type |-> "", tray_color |-> ""] }

\* the telemetry for a list of trays: without any bay when there is no tray,
\* else the trays in one unit or spread over two
StatusShapes(trays) ==
    IF trays = << >>
    THEN { [bay |-> "noPrint"], [bay |-> "noAms"], [bay |-> "noUnitList"],
           [bay |-> "units", units |-> << >>],
           [bay |-> "units", units |-> <<[tray |-> << >>]>>],
           [bay |-> "units", units |-> <<[id |-> "0"]>>] }
    ELSE { [bay |-> "units", units |-> <<[tray |-> trays]>>],
           [bay |-> "units", units |-> <<[id |-> "0"], [tray |-> trays]>>] }
         \cup { [bay |-> "units",
                 units |-> <<[tray |-> SubSeq(trays, 1, k)],
                             [tray |-> SubSeq(trays, k + 1, Len(trays))]>>] :
                k \in 1..(Len(trays) - 1) }

\* the colour strings normalizeColor is applied to on their own
ColorInputs ==
    { "FF0000", "#FF0000", "#ff0000", " #ff0000 ", "#ff0000ff", "515151FF",
      "ff 00 00", "#FFF", "#1234567", "##FF0000", "" }

\* FilamentMatcher.matchProfilesToAMS(profiles, currentStatus)
MatchProfilesToAMS ==
    /\ matcher.pc = "idle"
    /\ \E n \in 0..MaxProfiles, m \in 0..MaxTrays :
        \E shapes \in [1..n -> ProfileShapes], trays \in [1..m -> TrayShapes] :
          \E status \in StatusShapes(trays) :
            matcher' =
                [pc |-> "matched",
                 profiles |-> [i \in 1..n |-> createProfile(i - 1, shapes[i])],
                 status |-> status,
                 outcome |-> matchProfilesToAMS(
                                [i \in 1..n |-> createProfile(i - 1, shapes[i])],
                                status)]
    /\ UNCHANGED <<retryVars, connVars, sessVars, exec, commands, parser, ftp,
                   inflight>>

\* normalizeColor(color)
NormalizeColor ==
    /\ matcher.pc = "idle"
    /\ \E color \in ColorInputs :
          matcher' = [pc |-> "normalized", color |-> color,
                      normalized |-> normalizeColor(color)]
    /\ UNCHANGED <<retryVars, connVars, sessVars, exec, commands, parser, ftp,
                   inflight>>

\* normalizeColor applied to what normalizeColor returned
NormalizeColorAgain ==
    /\ matcher.pc = "normalized"
    /\ matcher' = [pc |-> "renormalized", color |-> matcher.color,
                   normalized |-> matcher.normalized,
                   again |-> normalizeColor(matcher.normalized)]
    /\ UNCHANGED <<retryVars, connVars, sessVars, exec, commands, parser, ftp,
                   inflight>>

\* ------------------------------------------------------------------------
\* Specification SpecMatcher: one call of the matcher, or of normalizeColor
\* ------------------------------------------------------------------------
InitMatcher == RetryInit /\ ConnIdle /\ SessionNew /\ NodeIdle

NextMatcher == MatchProfilesToAMS \/ NormalizeColor \/ NormalizeColorAgain

SpecMatcher == InitMatcher /\ [][NextMatcher]_vars

\* ------------------------------------------------------------------------
\* PathValidator
\* ------------------------------------------------------------------------
MAX_PATH_LENGTH == 4096
MAX_FILENAME_LENGTH == 255

BLOCKED_PATHS ==
    <<"/etc", "/sys", "/proc", "/root", "/boot", "/dev", "/var", "/usr", "/bin",
      "/sbin", "/lib", "/tmp", "\\windows", "\\system32", "\\program files">>

\* String.prototype.toLowerCase
toLowerCase(str) == Join([i \in 1..Len(str) |-> LowerChar(CharAt(str, i))])

\* String.prototype.endsWith
EndsWith(str, suffix) ==
    /\ Len(str) >= Len(suffix)
    /\ SubSeq(str, Len(str) - Len(suffix) + 1, Len(str)) = suffix

\* the characters of the escape sequences that occur in the paths drawn
Escapes == [e \in {"2e", "2f", "25", "5c"} |->
              CASE e = "2e" -> "." [] e = "2f" -> "/" [] e = "25" -> "%"
                [] e = "5c" -> "\\"]

\* every % of str starts an escape sequence
WellEscaped(str) ==
    \A i \in 1..Len(str) :
        CharAt(str, i) = "%" =>
            i + 2 <= Len(str) /\ toLowerCase(SubSeq(str, i + 1, i + 2)) \in DOMAIN Escapes

\* decodeURIComponent of a well escaped string
RECURSIVE PercentDecode(_)
PercentDecode(str) ==
    IF str = "" THEN ""
    ELSE IF CharAt(str, 1) = "%"
    THEN Escapes[toLowerCase(SubSeq(str, 2, 3))] \o PercentDecode(SubSeq(str, 4, Len(str)))
    ELSE CharAt(str, 1) \o PercentDecode(SubSeq(str, 2, Len(str)))

\* try { s = decodeURIComponent(s) } catch { }: a URIError leaves s as it is
TryDecode(str) == IF WellEscaped(str) THEN PercentDecode(str) ELSE str

\* the components of a path with "", "." and ".." resolved, as
\* path.posix.normalize resolves them
RECURSIVE ResolveDots(_, _, _)
ResolveDots(parts, acc, absolute) ==
    IF parts = << >> THEN acc
    ELSE IF Head(parts) \in {"", "."} THEN ResolveDots(Tail(parts), acc, absolute)
    ELSE IF Head(parts) # ".." THEN ResolveDots(Tail(parts), Append(acc, Head(parts)), absolute)
    ELSE IF acc # << >> /\ acc[Len(acc)] # ".."
    THEN ResolveDots(Tail(parts), SubSeq(acc, 1, Len(acc) - 1), absolute)
    ELSE IF absolute THEN ResolveDots(Tail(parts), acc, absolute)
    ELSE ResolveDots(Tail(parts), Append(acc, ".."), absolute)

\* Array.prototype.join('/')
JoinPath(parts) ==
    Join([i \in 1..Len(parts) |-> (IF i = 1 THEN "" ELSE "/") \o parts[i]])

\* path.posix.normalize for the resolved body of a path
Normalized(body, absolute, trailing) ==
    (IF absolute THEN "/" ELSE "")
    \o (IF body = "" /\ ~absolute THEN "." ELSE body)
    \o (IF trailing /\ (body # "" \/ ~absolute) THEN "/" ELSE "")

\* path.posix.normalize
posixNormalize(path) ==
    IF path = "" THEN "."
    ELSE Normalized(JoinPath(ResolveDots(Split(path, "/"), << >>, CharAt(path, 1) = "/")),
                    CharAt(path, 1) = "/", CharAt(path, Len(path)) = "/")

\* replace(/\/+$/, '')
RECURSIVE StripTrailingSlashes(_)
StripTrailingSlashes(str) ==
    IF str # "" /\ CharAt(str, Len(str)) = "/"
    THEN StripTrailingSlashes(SubSeq(str, 1, Len(str) - 1))
    ELSE str

\* a component that starts with "." and is not a .3mf or .gcode name
Hidden(component) ==
    /\ StartsWith(component, ".")
    /\ ~EndsWith(toLowerCase(component), ".3mf")
    /\ ~EndsWith(toLowerCase(component), ".gcode")

\* what a sanitizer returns: the path, or the error it throws
Accepted(path) == [error |-> "", path |-> path]
Rejected(message) == [error |-> message, path |-> ""]

\* mutant of Blocked: no directory is blocked
Blocked_None(userPath, normalized) == {}

\* the entries of BLOCKED_PATHS that userPath or its normalized form falls under
Blocked(userPath, normalized) ==
    IF StartsWith(normalized, "/") \/ Contains(userPath, "\\")
    THEN { b \in 1..Len(BLOCKED_PATHS) :
             \/ StartsWith(toLowerCase(normalized), BLOCKED_PATHS[b])
             \/ StartsWith(toLowerCase(userPath), BLOCKED_PATHS[b]) }
    ELSE {}

\* sanitizePath after the decoding: decoded is the path decoded twice,
\* normalized its normal form without trailing slashes
CheckPath(userPath, decoded, normalized) ==
    IF StartsWith(decoded, "./") \/ StartsWith(decoded, "../") \/ Contains(decoded, "/../")
    THEN Rejected("Path traversal detected. Use absolute paths starting with / (e.g., /sdcard/file.3mf) or filename only.")
    ELSE IF Contains(normalized, "..")
    THEN Rejected("Path traversal detected. Paths containing \"..\" are not allowed for security reasons. Use absolute paths starting with / or filename only.")
    ELSE IF \/ Contains(normalized, "\\..")
            \/ Contains(userPath, "../")
            \/ Contains(userPath, "..\\")
    THEN Rejected("Path traversal detected (Windows-style). Paths containing \"..\\\" are not allowed.")
    ELSE IF Blocked(userPath, normalized) # {}
    THEN Rejected("Access to system directory \""
                  \o BLOCKED_PATHS[FirstIndex(Blocked(userPath, normalized))]
                  \o "\" is not allowed for security reasons. Only printer storage directories (/sdcard, /cache) are accessible.")
    ELSE IF \E c \in 1..Len(Split(normalized, "/")) : Hidden(Split(normalized, "/")[c])
    THEN Rejected("Hidden files/directories (starting with \".\") are not allowed: \""
                  \o Split(normalized, "/")[FirstIndex({ c \in 1..Len(Split(normalized, "/")) :
                                                          Hidden(Split(normalized, "/")[c]) })]
                  \o "\"")
    ELSE Accepted(normalized)

\* the normal form sanitizePath works on
NormalForm(decoded) ==
    IF posixNormalize(decoded) = "/" THEN "/"
    ELSE StripTrailingSlashes(posixNormalize(decoded))

\* PathValidator.sanitizePath, for paths without NUL characters
sanitizePath(userPath) ==
    IF userPath = "" THEN Rejected("Path must be a non-empty string")
    ELSE IF Len(userPath) > MAX_PATH_LENGTH 
    THEN Rejected("Path too long. Maximum " \o ToString(MAX_PATH_LENGTH)
                  \o " characters allowed. Provided: " \o ToString(Len(userPath))
                  \o " characters.")
    ELSE CheckPath(userPath, TryDecode(TryDecode(userPath)),
                   NormalForm(TryDecode(TryDecode(userPath))))

\* PathValidator.sanitizeFilename, for names without NUL characters
sanitizeFilename(filename) ==
    IF filename = "" THEN Rejected("Filename must be a non-empty string")
    ELSE IF Len(filename) > MAX_FILENAME_LENGTH 
    THEN Rejected("Filename too long. Maximum " \o ToString(MAX_FILENAME_LENGTH)
                  \o " characters allowed. Provided: " \o ToString(Len(filename))
                  \o " characters.")
    ELSE IF Contains(filename, "/") \/ Contains(filename, "\\")
    THEN Rejected("Path separators (/ or \\) are not allowed in filenames. Provide filename only, not a path.")
    ELSE IF filename \in {".", ".."} THEN Rejected("Invalid filename: \"" \o filename \o "\"")
    ELSE IF StartsWith(filename, ".")
    THEN Rejected("Hidden filenames (starting with \".\") are not allowed")
    ELSE IF \E i \in 1..Len(filename) : CharAt(filename, i) \in {"<", ">", ":", "\"", "|", "?", "*"}
    THEN Rejected("Filename contains invalid characters. Only alphanumeric, dash, underscore, and dot are allowed.")
    ELSE Accepted(filename)

\* safeJoin after the sanitizing of the user path
JoinChecked(basePath, sanitizedUser) ==
    IF sanitizedUser.error # "" THEN sanitizedUser
    ELSE IF ~StartsWith(posixNormalize(basePath \o "/" \o sanitizedUser.path),
                        posixNormalize(basePath))
    THEN Rejected("Joined path \"" \o posixNormalize(basePath \o "/" \o sanitizedUser.path)
                  \o "\" escapes base directory \"" \o basePath \o "\"")
    ELSE Accepted(posixNormalize(basePath \o "/" \o sanitizedUser.path))

\* PathValidator.safeJoin
safeJoin(basePath, userPath) ==
    JoinChecked(basePath,
                sanitizePath(IF StartsWith(userPath, "./")
                             THEN SubSeq(userPath, 3, Len(userPath)) ELSE userPath))

\* ------------------------------------------------------------------------
\* BambuLabFtpClient
\* ------------------------------------------------------------------------
\* the remote paths handed to the client
RemotePaths ==
    { "/", "/sdcard/model.3mf", "model.3mf", "/cache/", "/sdcard//a/./b.gcode",
      "../etc/passwd", "/sdcard/../etc/passwd", "/etc/passwd", "%2e%2e%2fetc",
      "%252e%252e/x", "/sdcard/.hidden", "..\\secret", "/sdcard/100%", "" }

\* the file names and the remote directories handed to uploadFile
UploadNames == { "model.3mf", "../model.3mf", ".profile" }
UploadPaths == { "", "/cache", "/etc", "../x" }

\* the remote file path of uploadFile: sanitizeFilename, sanitizePath of
\* (remotePath || '/'), safeJoin
UploadTarget(fileName, remotePath) ==
    IF sanitizeFilename(fileName).error # "" THEN sanitizeFilename(fileName)
    ELSE IF sanitizePath(StringOr(remotePath, "/")).error # ""
    THEN sanitizePath(StringOr(remotePath, "/"))
    ELSE safeJoin(sanitizePath(StringOr(remotePath, "/")).path,
                  sanitizeFilename(fileName).path)

\* ensureConnection(): connect() is called when the flag is off or the
\* channel is closed
NeedsFtpConnect(f) == ~f.isConnected \/ f.closed

\* the client after connectOnce(): access() resolved, or it rejected and left
\* the channel closed or open
FtpConnected(f, ok, closed) ==
    [f EXCEPT !.isConnected = ok, !.closed = IF ok THEN FALSE ELSE closed]

\* mutant of Issue: the command is issued with the path as given
Issue_Unsanitized(f, method, command, args, target, commandOk) ==
    [f EXCEPT !.sent = Append(@, [command |-> command, path |-> args.path]),
              !.last = [method |-> method, args |-> args, sentBefore |-> Len(f.sent),
                        error |-> IF commandOk THEN "" ELSE "command"]]

\* the try block of a method: target is what the sanitizers made of the
\* path; the command is issued only for an accepted path
Issue(f, method, command, args, target, commandOk) ==
    IF target.error # ""
    THEN [f EXCEPT !.last = [method |-> method, args |-> args,
                             sentBefore |-> Len(f.sent), error |-> target.error]]
    ELSE [f EXCEPT !.sent = Append(@, [command |-> command, path |-> target.path]),
                   !.last = [method |-> method, args |-> args,
                             sentBefore |-> Len(f.sent),
                             error |-> IF commandOk THEN "" ELSE "command"]]

\* a method that takes a remote path: ensureConnection(), then the try block
PathMethod(method, command, args, target) ==
    /\ ftp.calls < MaxFtpCalls
    /\ \E connectOk, leftClosed, commandOk \in BOOLEAN :
          /\ ~NeedsFtpConnect(ftp) => connectOk
          /\ connectOk => leftClosed
          /\ (~connectOk \/ target.error # "") => commandOk
          /\ ftp' = IF ~connectOk
                    THEN [FtpConnected(ftp, FALSE, leftClosed) EXCEPT
                             !.calls = @ + 1,
                             !.last = [method |-> method, args |-> args,
                                       sentBefore |-> Len(ftp.sent),
                                       error |-> "connect"]]
                    ELSE [Issue(IF NeedsFtpConnect(ftp)
                                THEN FtpConnected(ftp, TRUE, FALSE) ELSE ftp,
                                method, command, args, target, commandOk)
                          EXCEPT !.calls = @ + 1]
    /\ UNCHANGED <<retryVars, connVars, sessVars, exec, commands, parser, matcher,
                   inflight>>

UploadFile ==
    \E fileName \in UploadNames, remotePath \in UploadPaths :
        PathMethod("uploadFile", "uploadFrom",
                   [path |-> remotePath, fileName |-> fileName],
                   UploadTarget(fileName, remotePath))

ListFiles ==
    \E remotePath \in RemotePaths :
        PathMethod("listFiles", "list", [path |-> remotePath], sanitizePath(remotePath))

DeleteFile ==
    \E remotePath \in RemotePaths :
        PathMethod("deleteFile", "remove", [path |-> remotePath], sanitizePath(remotePath))

DownloadFile ==
    \E remotePath \in RemotePaths :
        PathMethod("downloadFile", "downloadTo", [path |-> remotePath], sanitizePath(remotePath))

DownloadFileAsBuffer ==
    \E remotePath \in RemotePaths :
        PathMethod("downloadFileAsBuffer", "downloadTo", [path |-> remotePath],
                   sanitizePath(remotePath))

CreateDirectory ==
    \E remotePath \in RemotePaths :
        PathMethod("createDirectory", "ensureDir", [path |-> remotePath], sanitizePath(remotePath))

ChangeDirectory ==
    \E remotePath \in RemotePaths :
        PathMethod("changeDirectory", "cd", [path |-> remotePath], sanitizePath(remotePath))

\* connect(): connectOnce() under withConditionalRetry, resolved or rejected
FtpConnect ==
    /\ ftp.calls < MaxFtpCalls
    /\ \E ok, leftClosed \in BOOLEAN :
          /\ ok => leftClosed
          /\ ftp' = [FtpConnected(ftp, ok, leftClosed) EXCEPT
                        !.calls = @ + 1,
                        !.last = [method |-> "connect",
                                  error |-> IF ok THEN "" ELSE "connect"]]
    /\ UNCHANGED <<retryVars, connVars, sessVars, exec, commands, parser, matcher,
                   inflight>>

\* the server or the network closes the channel
FtpChannelCloses ==
    /\ ~ftp.closed
    /\ ftp' = [ftp EXCEPT !.closed = TRUE]
    /\ UNCHANGED <<retryVars, connVars, sessVars, exec, commands, parser, matcher,
                   inflight>>

\* mutant of ShouldClose: close() is called whatever the channel's state
ShouldClose_Always(f) == TRUE

\* the guard of disconnect(): if (!this.client.closed)
ShouldClose(f) == ~f.closed

\* disconnect()
FtpDisconnect ==
    /\ ftp.disconnects < MaxFtpDisconnects
    /\ ftp' = [ftp EXCEPT !.closes = IF ShouldClose(ftp) THEN @ + 1 ELSE @,
                          !.closed = TRUE,
                          !.isConnected = FALSE,
                          !.disconnects = @ + 1,
                          !.last = [method |-> "disconnect", error |-> ""]]
    /\ UNCHANGED <<retryVars, connVars, sessVars, exec, commands, parser, matcher,
                   inflight>>

\* ------------------------------------------------------------------------
\* Specification SpecFtp: method calls on one BambuLabFtpClient
\* ------------------------------------------------------------------------
InitFtp == RetryInit /\ ConnIdle /\ SessionNew /\ NodeIdle

NextFtp ==
    \/ FtpConnect
    \/ FtpChannelCloses
    \/ UploadFile
    \/ ListFiles
    \/ DeleteFile
    \/ DownloadFile
    \/ DownloadFileAsBuffer
    \/ CreateDirectory
    \/ ChangeDirectory
    \/ FtpDisconnect

SpecFtp == InitFtp /\ [][NextFtp]_vars

\* ------------------------------------------------------------------------
\* Specification SpecTeardown: both sessions, connected or never connected,
\* being closed
\* ------------------------------------------------------------------------
InitTeardown ==
    /\ (Connected \/ (RetryInit /\ ConnIdle))
    /\ SessionNew
    /\ NodeIdle

NextTeardown ==
    \/ MessageArrives
    \/ Disconnect
    \/ GracefulEndCompletes
    \/ DisconnectTimeoutFires
    \/ ForceDisconnect
    \/ FtpConnect
    \/ FtpChannelCloses
    \/ FtpDisconnect

SpecTeardown == InitTeardown /\ [][NextTeardown]_vars

\* ------------------------------------------------------------------------
\* Specification SpecLifecycle: connect(), disconnect(), forceDisconnect() and
\* the transport events on one session
\* ------------------------------------------------------------------------
MaxLifecycleDisconnects == 1   \* disconnect() calls while connect() may run

\* disconnect() called at any point of the life of the session
DisconnectAnytime ==
    /\ Len(disc) < MaxLifecycleDisconnects
    /\ Disconnect

MaxLifecycleAttempts == 2      \* connectOnce() calls followed while disconnect() may run

\* the retry of connect() while the session may be closed under it
RetryConnectAnytime ==
    /\ Len(attempts) < MaxLifecycleAttempts
    /\ RetryConnect

InitLifecycle == RetryInit /\ ConnIdle /\ SessionNew /\ NodeIdle

NextLifecycle ==
    \/ Connect
    \/ ConnectTimeoutFires
    \/ Handshake
    \/ SubscribeAcked
    \/ SubscribeFails
    \/ TransportError
    \/ AwaitConnectOnce
    \/ RetryConnectAnytime
    \/ DisconnectAnytime
    \/ GracefulEndCompletes
    \/ DisconnectTimeoutFires
    \/ ForceDisconnect

SpecLifecycle == InitLifecycle /\ [][NextLifecycle]_vars

\* ------------------------------------------------------------------------
\* Properties of the inbound buffer
\* ------------------------------------------------------------------------
\* C2: after n parseable messages since the buffer was last emptied, the
\* buffer holds the most recent min(n, 100) of them in arrival order; it never
\* holds more than 100, and a full buffer loses its oldest entry, not the new one.
C2_BufferHoldsMostRecent ==
    LET n == Len(received) - clearedAt
        k == Min(n, 100)
    IN  /\ Len(messageBuffer) <= 100
        /\ Len(messageBuffer) = k
        /\ \A i \in 1..k : messageBuffer[i] = received[Len(received) - k + i]

\* C2 witness: more than 100 messages have arrived since the last clear, so
\* the insertion into the full buffer has evicted
C2_Witness ==
    /\ Len(received) - clearedAt > 100
    /\ Len(messageBuffer) = 100
    /\ messageBuffer[1].n = Len(received) - 99
    /\ messageBuffer[100].n = Len(received)

\* ------------------------------------------------------------------------
\* Properties of disconnect
\* ------------------------------------------------------------------------
\* C4: every disconnect() call eventually resolves.
C4_DisconnectResolves ==
    \A d \in 1..MaxDisconnects :
        (Len(disc) >= d) ~> (Len(disc) >= d /\ disc[d].promise = "resolved")


\* ------------------------------------------------------------------------
\* Properties of the message handler
\* ------------------------------------------------------------------------
\* C11: unparseable payloads change nothing but the parse-error record: the
\* session stays connected, the buffer holds exactly the parsed messages that
\* arrived since it was last emptied, the callback has run once per parsed
\* message and never for a bad payload, and a pending wait finds in the buffer
\* every parsed message that arrived since its publish; it is rejected only
\* by its timeout.
C11_BadPayloadSwallowed ==
    /\ client # 0 /\ handles[client].state = "connected"
    /\ messageBuffer = SubSeq(received, clearedAt + 1, Len(received))
    /\ Len(callbackLog) = Len(received)
    /\ \A i \in 1..Len(callbackLog) : callbackLog[i].n = i
    /\ call.promise = "pending" =>
          messageBuffer = SubSeq(received, call.publishedAt + 1, Len(received))
    /\ call.promise = "rejected" =>
          call.elapsed = MQTT_RESPONSE /\ call.error = statusTimeout(MQTT_RESPONSE)
    /\ call.promise = "resolved" => call.result.n \in ArrivedSincePublish

\* C11 witness: a bad payload arrived during the wait, a parsed message
\* arrived after it, and the wait resolved with that message
C11_Witness ==
    /\ call.promise = "resolved"
    /\ \E i \in 1..Len(parseErrorHistory) :
          /\ parseErrorHistory[i].source = "parse"
          /\ parseErrorHistory[i].after >= call.publishedAt
          /\ call.result.n > parseErrorHistory[i].after

\* C12: a step that handles a parseable message invokes the callback
\* registered last, once, with the message already at the end of the buffer;
\* no other step invokes a callback, and a registration replaces the callback
\* without invoking anything.
C12_OneCallbackInvokedOnce ==
    [][ /\ IF Len(received') > Len(received)
           THEN /\ messageBuffer'[Len(messageBuffer')] = received'[Len(received')]
                /\ callbackLog' =
                     IF updateCallback = 0 THEN callbackLog
                     ELSE Append(callbackLog, [callback |-> updateCallback,
                                               n |-> Len(received')])
           ELSE callbackLog' = callbackLog
        /\ updateCallback' # updateCallback =>
              /\ updateCallback' \notin {callbackLog[i].callback : i \in 1..Len(callbackLog)}
              /\ received' = received
      ]_vars

\* C12 witness: a message was handled by the first callback, a second
\* callback replaced it, and the next message was handled by the second
C12_Witness ==
    /\ updateCallback = 2
    /\ Len(callbackLog) = 2
    /\ callbackLog[1].callback = 1
    /\ callbackLog[2].callback = 2
    /\ callbackLog[2].n = Len(received)


\* C13: a step in which publishCommand(command, false) is called on the
\* connected session hands the command to publish once, returns at once with
\* the identifier the command carries, leaves the buffer as it was and arms
\* neither timer.
C13_FireAndForget ==
    [][ ( /\ apiCalls' = apiCalls + 1
          /\ call'.kind = "publishCommand"
          /\ ~call'.waitForResponse )
        => /\ Len(published') = 1
           /\ call'.promise = "resolved"
           /\ call'.settleCalls = 1
           /\ call'.seqId = published'[1].sequence_id
           /\ ~call'.timeout /\ ~call'.interval
           /\ messageBuffer' = messageBuffer
           /\ received' = received
      ]_vars

\* C13 witness: a fire-and-forget system command returned with its identifier
\* while a message sat in the buffer
C13_Witness ==
    /\ call.kind = "publishCommand"
    /\ ~call.waitForResponse
    /\ call.promise = "resolved"
    /\ published = <<[key |-> "system", sequence_id |-> "0"]>>
    /\ call.seqId = "0"
    /\ Len(messageBuffer) > 0

\* C14: getStatus() publishes its request, and the step in which it resolves
\* returns the first buffered message with print.ams if there is one, else
\* the first whose pushing.sequence_id is that of the request, else the last.
C14_StatusPreference ==
    [][ ( /\ call.kind = "getStatus"
          /\ call.promise = "pending"
          /\ call'.promise = "resolved" )
        => LET buf == messageBuffer
               withAms == { i \in 1..Len(buf) : buf[i].key = "print" /\ buf[i].ams }
               echoes == { i \in 1..Len(buf) :
                             /\ buf[i].key = "pushing"
                             /\ buf[i].sequence_id = published[1].sequence_id }
               First(S) == CHOOSE i \in S : \A j \in S : i <= j
           IN  /\ Len(buf) > 0
               /\ published[1].key = "pushing"
               /\ call'.result =
                    IF withAms # {} THEN buf[First(withAms)]
                    ELSE IF echoes # {} THEN buf[First(echoes)]
                    ELSE buf[Len(buf)]
      ]_vars

\* C14 witness: getStatus resolved with the message carrying print.ams
\* although the echo of its request arrived after it and was the last buffered
C14_Witness ==
    /\ call.kind = "getStatus"
    /\ call.promise = "resolved"
    /\ HasAms(call.result)
    /\ Len(received) > call.result.n
    /\ received[call.result.n + 1].key = "pushing"
    /\ call.elapsed = MESSAGE_POLL


\* ------------------------------------------------------------------------
\* Properties of execute
\* ------------------------------------------------------------------------
\* C15: connect() is called only for items whose resource is print, status
\* or control, at most once per item, and never after a call that succeeded:
\* at most one connection is established per invocation.
C15_ConnectOnceAndReuse ==
    LET cs == exec.connects
    IN  /\ \A k \in 1..Len(cs) :
              /\ exec.items[cs[k].item] \in {"print", "status", "control"}
              /\ k < Len(cs) => ~cs[k].ok /\ cs[k].item < cs[k + 1].item
        /\ Cardinality({k \in 1..Len(cs) : cs[k].ok}) <= 1
        /\ exec.mqttConnected <=> \E k \in 1..Len(cs) : cs[k].ok

\* C15 witness: two items that both need the session were processed with a
\* single connect() call
C15_Witness ==
    /\ exec.pc = "returned"
    /\ exec.items = <<"status", "print">>
    /\ exec.connects = <<[item |-> 1, ok |-> TRUE]>>
    /\ \A k \in 1..2 : exec.returnData[k].error = ""


\* ------------------------------------------------------------------------
\* Properties of BambuLabCommands
\* ------------------------------------------------------------------------
\* the body of a command under its variant key
BodyOf(command) ==
    IF "print" \in DOMAIN command THEN command.print
    ELSE IF "pushing" \in DOMAIN command THEN command.pushing
    ELSE IF "system" \in DOMAIN command THEN command.system
    ELSE command.gcode_line

\* C16: the identifiers handed out since construction or the last reset are
\* "0", "1", "2", ... in this order, one per command built, the command
\* returned last carries the last of them, and getCurrentSequenceId() is the
\* number of commands built since then.
C16_SequenceIds ==
    /\ commands.ids = SubSeq(<<"0", "1", "2", "3", "4", "5", "6", "7">>,
                             1, Len(commands.ids))
    /\ commands.sequenceId = Len(commands.ids)
    /\ commands.call.builder \notin {"none", "resetSequenceId"} =>
          /\ Len(commands.ids) >= 1
          /\ BodyOf(commands.last).sequence_id = commands.ids[Len(commands.ids)]

\* C16 witness: three commands were built since construction or the last
\* reset, the third a G-code command carrying "2"
C16_Witness ==
    /\ commands.ids = <<"0", "1", "2">>
    /\ "gcode_line" \in DOMAIN commands.last
    /\ commands.last.gcode_line.sequence_id = "2"

\* C17: setSpeed returns a print_speed command whose value is the decimal
\* string of the speed clamped into [50, 166].
C17_SpeedClamped ==
    commands.call.builder = "setSpeed" =>
        LET speed == commands.call.speed
            body == commands.last.system
        IN  /\ body.command = "print_speed"
            /\ body.param = ToString(IF speed < 50 THEN 50
                                     ELSE IF speed > 166 THEN 166 ELSE speed)
            /\ speed = 10 => body.param = "50"
            /\ speed = 200 => body.param = "166"
            /\ speed = 100 => body.param = "100"

\* C17 witness: setSpeed(200) returned the upper limit
C17_Witness ==
    /\ commands.call.builder = "setSpeed"
    /\ commands.call.speed = 200
    /\ commands.last.system.param = "166"

EventsOf(ev) == { i \in 1..Len(rTrace) : rTrace[i].ev = ev }

\* the index in rTrace of the settlement of the n-th invocation of fn
SettlementOf(n) ==
    CHOOSE i \in 1..Len(rTrace) :
        rTrace[i].ev \in {"resolved", "rejected"} /\ rTrace[i].n = n

RECURSIVE Power(_, _)
Power(b, e) == IF e = 0 THEN 1 ELSE b * Power(b, e - 1)

\* C8: withRetry invokes the operation until its first success or until
\* maxRetries+1 invocations have failed: it returns the value of the first
\* success without a further invocation, or rethrows the last error after
\* exactly maxRetries+1 invocations; the operation is invoked between 1 and
\* maxRetries+1 times (in withConditionalRetry, as used by connect(), at most
\* maxRetries+1 times as well).
C8_WithRetryBounded ==
    rPc # "idle" =>
        /\ calls \in 1..(maxRetriesOf(rOpts) + 1)
        /\ Cardinality(EventsOf("resolved")) + Cardinality(EventsOf("rejected"))
               = IF rPc = "calling" THEN calls - 1 ELSE calls
        /\ rMode = "withRetry" =>
            /\ rPc = "returned" =>
                /\ EventsOf("resolved") = {Len(rTrace)}
                /\ rTrace[Len(rTrace)].n = calls
                /\ Cardinality(EventsOf("rejected")) = calls - 1
                /\ rOutcome.kind = "returned"
            /\ rPc = "thrown" =>
                /\ calls = maxRetriesOf(rOpts) + 1
                /\ EventsOf("resolved") = {}
                /\ rTrace[Len(rTrace)].ev = "rejected"
                /\ rTrace[Len(rTrace)].n = calls
                /\ rOutcome = Threw(rTrace[Len(rTrace)].error, calls)
            /\ rPc \in {"calling", "sleeping"} =>
                /\ EventsOf("resolved") = {}
                /\ rOutcome = NoOutcome

C8_Witness ==
    /\ rMode = "withRetry"
    /\ rPc = "thrown"
    /\ calls = 3
    /\ maxRetriesOf(rOpts) = 2

\* C9: in withConditionalRetry a failure that isRetryableError classifies as
\* not retryable ends the call at once: that same error is rethrown, with no
\* further invocation, no onRetry call and no delay after it; when the first
\* failure is not retryable the operation was invoked exactly once; a
\* retryable failure followed by a success yields the success after exactly
\* two invocations.
C9_NonRetryableImmediate ==
    rMode = "withConditionalRetry" =>
        /\ \A i \in EventsOf("rejected") :
               ~isRetryableError(rTrace[i].error) =>
                   /\ i = Len(rTrace)
                   /\ rPc = "thrown"
                   /\ rOutcome = Threw(rTrace[i].error, rTrace[i].n)
                   /\ rTrace[i].n = calls
        /\ (Len(rTrace) >= 1 /\ rTrace[1].ev = "rejected"
                /\ rTrace[1].error \in {"Authentication failed", "Fail 1"}) =>
               (calls = 1 /\ rPc = "thrown" /\ Len(rTrace) = 1)
        /\ (rPc = "returned" /\ Cardinality(EventsOf("rejected")) = 1) =>
               /\ calls = 2
               /\ isRetryableError(rTrace[1].error)
               /\ rOutcome.kind = "returned"

C9_Witness ==
    /\ rMode = "withConditionalRetry"
    /\ rPc = "thrown"
    /\ calls = 2
    /\ rOutcome.error = "Authentication failed"
    /\ rTrace[1].error = "ECONNREFUSED"

\* C10: the delay waited before the k-th retry is
\* min(initialDelay * backoffMultiplier^(k-1), maxDelay), never above
\* maxDelay; onRetry, when given, is called exactly once per retry, just
\* before the wait, with the attempt number k, the error of the failed
\* invocation and that delay.
C10_BackoffDelays ==
    \A i \in EventsOf("sleep") :
        LET k == rTrace[i].n
            d == Min(initialDelayOf(rOpts) * Power(backoffMultiplierOf(rOpts), k - 1),
                     maxDelayOf(rOpts))
        IN  /\ k = Cardinality({ j \in EventsOf("sleep") : j <= i })
            /\ rTrace[i].delay = d
            /\ rTrace[i].delay <= maxDelayOf(rOpts)
            /\ (initialDelayOf(rOpts) = 100 /\ backoffMultiplierOf(rOpts) = 2
                    /\ maxDelayOf(rOpts) = RETRY_MAX_DELAY /\ k <= 2) =>
                   rTrace[i].delay = (IF k = 1 THEN 100 ELSE 200)
            /\ IF hasOnRetry(rOpts)
               THEN /\ rTrace[i - 1] =
                         [ev |-> "onRetry", n |-> k,
                          error |-> rTrace[SettlementOf(k)].error, delay |-> d]
                    /\ rTrace[SettlementOf(k)].ev = "rejected"
                    /\ SettlementOf(k) = i - 2
                    /\ Cardinality({ j \in EventsOf("onRetry") : j <= i }) = k
               ELSE EventsOf("onRetry") = {}

C10_Witness ==
    /\ Cardinality(EventsOf("sleep")) = 2
    /\ hasOnRetry(rOpts)
    /\ initialDelayOf(rOpts) = 100
    /\ maxDelayOf(rOpts) = 150
    /\ \E i \in EventsOf("sleep") : rTrace[i].delay = 150 /\ rTrace[i - 1].delay = 150

\* ------------------------------------------------------------------------
\* Properties of connect() (checked under SpecConnect / FairSpecConnect)
\* ------------------------------------------------------------------------
ConnectSettled == rPc \in {"returned", "thrown"}

\* C5: every call of connect() eventually settles, whatever the broker does.
C5_ConnectSettles == (rPc # "idle") ~> ConnectSettled

\* C6 as stated: connect() resolves only after handshake and subscription
\* acknowledgment, and a subscription error makes connect() reject.
C6_SubscribeErrorRejectsConnect ==
    rPc = "returned" =>
        /\ client # 0
        /\ handles[client].handshaked
        /\ handles[client].subAcked
        /\ \A i \in 1..Len(attempts) : attempts[i].cause # "subscribe"

\* C6 as amended: a connection attempt resolves only after the handshake has
\* completed and the subscription has been acknowledged without error, and
\* connect() returns only with such an attempt; a subscription error makes
\* the attempt in which it occurs reject, and connect() rethrows it when it
\* is not retryable or no retry is left (otherwise a fresh attempt is made).
C6_ResolvesOnlyAfterSubAck ==
    /\ \A i \in 1..Len(attempts) :
           attempts[i].promise = "resolved" =>
               /\ attempts[i].handle # 0
               /\ handles[attempts[i].handle].handshaked
               /\ handles[attempts[i].handle].subAcked
    /\ rPc = "returned" =>
           /\ client = attempts[Len(attempts)].handle
           /\ attempts[Len(attempts)].promise = "resolved"
           /\ handles[client].handshaked
           /\ handles[client].subAcked
    /\ \A i \in 1..Len(attempts) :
           attempts[i].cause = "subscribe" =>
               /\ attempts[i].promise = "rejected"
               /\ \E m \in SubscribeErrors :
                      attempts[i].error =
                          "Failed to subscribe to device/01P00A000000001/report: " \o m
               /\ ~handles[attempts[i].handle].subAcked
               /\ (attempts[i].delivered
                      /\ (~isRetryableError(attempts[i].error)
                            \/ i = maxRetriesOf(ConnectOptions) + 1)) =>
                      /\ rPc = "thrown"
                      /\ rOutcome.error = attempts[i].error
                      /\ i = Len(attempts)

C6_Witness ==
    /\ rPc = "returned"
    /\ \E i \in 1..Len(attempts) : attempts[i].cause = "subscribe"
    /\ handles[client].subAcked

\* C7: connect() never retries after an attempt that failed with an
\* authentication failure: the failure is surfaced to the caller and no
\* further connection attempt follows it.
C7_AuthFailureNeverRetried ==
    \A i \in 1..Len(attempts) :
        (attempts[i].cause = "auth" /\ attempts[i].delivered) =>
            /\ rPc = "thrown"
            /\ rOutcome.error = attempts[i].error
            /\ i = Len(attempts)

\* ------------------------------------------------------------------------
\* Properties of the filament profile parser
\* ------------------------------------------------------------------------
\* the slots that the well-formed values of the "; filament:" directive list
DeclaredSlots ==
    [v \in {"1", "2", "4", "1,2", "2,4", "1,2,3,4", " 1 , 2", "3,1"} |->
        CASE v = "1" -> <<1>>
          [] v = "2" -> <<2>>
          [] v = "4" -> <<4>>
          [] v = "1,2" -> <<1, 2>>
          [] v = "2,4" -> <<2, 4>>
          [] v = "1,2,3,4" -> <<1, 2, 3, 4>>
          [] v = " 1 , 2" -> <<1, 2>>
          [] v = "3,1" -> <<3, 1>>]

\* the number of entries of the "; filament_type =" list of a header
EmbeddedCount(header) == IF header.types = Absent THEN 0 ELSE Len(header.types)

\* C19: when the directive lists slots s1..sk, each in 1..4 and within the
\* embedded list, the parser returns k profiles in the declared order, the
\* i-th with slotNumber si and index = trayId = si - 1, detectedMapping
\* <<s1 - 1, ..., sk - 1>>, and totalEmbedded the length of the type list
C19_ProfilesOfUsedSlots ==
    (/\ parser.pc = "done"
     /\ parser.header.filament \in DOMAIN DeclaredSlots
     /\ \A i \in DOMAIN DeclaredSlots[parser.header.filament] :
           DeclaredSlots[parser.header.filament][i] <= EmbeddedCount(parser.header))
    => LET declared == DeclaredSlots[parser.header.filament]
           out == parser.outcome
       IN  /\ out.error = ""
           /\ Len(out.profiles) = Len(declared)
           /\ \A i \in 1..Len(declared) :
                 /\ out.profiles[i].slotNumber = declared[i]
                 /\ out.profiles[i].index = declared[i] - 1
                 /\ out.profiles[i].trayId = declared[i] - 1
           /\ out.detectedMapping = [i \in 1..Len(declared) |-> declared[i] - 1]
           /\ out.totalEmbedded = Len(parser.header.types)

\* C19 witness: "filament: 1,2" over five embedded materials has been
\* parsed into two profiles, mapping <<0, 1>>, totalEmbedded 5
C19_Witness ==
    /\ parser.pc = "done"
    /\ parser.header.filament = "1,2"
    /\ EmbeddedCount(parser.header) = 5
    /\ Len(parser.outcome.profiles) = 2
    /\ parser.outcome.detectedMapping = <<0, 1>>
    /\ parser.outcome.totalEmbedded = 5

\* the values of the directive with an entry that is not an integer in 1..4
NotSlotValues == {"1,5", "0", "-1,2", "x", "2.5", "1,3rd"}

\* C20: for a header with a list of embedded types, a directive with an
\* entry that is not an integer in 1..4 fails with the invalid-slot-number
\* error, and a valid slot s with s - 1 not below the number of embedded
\* types fails with the profile-index error; neither returns profiles or a
\* mapping
C20_InvalidSlotsFail ==
    (parser.pc = "done" /\ parser.header.types # Absent) =>
        LET out == parser.outcome
            value == parser.header.filament
        IN  /\ value \in NotSlotValues =>
                  /\ StartsWith(out.error, "Invalid AMS slot number")
                  /\ out.profiles = << >> /\ out.detectedMapping = << >>
            /\ (/\ value \in DOMAIN DeclaredSlots
                /\ parser.header.types # Absent
                /\ \E i \in DOMAIN DeclaredSlots[value] :
                      DeclaredSlots[value][i] - 1 >= EmbeddedCount(parser.header))
               => /\ StartsWith(out.error, "Invalid profile index")
                  /\ out.profiles = << >> /\ out.detectedMapping = << >>

\* ------------------------------------------------------------------------
\* Properties of the filament matcher
\* ------------------------------------------------------------------------
\* the trays the telemetry of the call reports, in reported order
ReportedTrays == FlatTrays(UnitsOf(matcher.status))

\* the telemetry reports no bay, or a bay whose units hold no tray
NoLoadedTray(status) ==
    \/ status.bay # "units"
    \/ \A u \in 1..Len(status.units) :
          "tray" \in DOMAIN status.units[u] => status.units[u].tray = << >>

\* C21: without a bay, or with a bay of zero loaded trays, the call succeeds
\* with amsDetected false, totalSlots 1 and a mapping of zeros as long as
\* the profile list; every match has matchedTrayId 0 and matchedSlot 1
C21_NoBayExternalSpool ==
    (matcher.pc = "matched" /\ NoLoadedTray(matcher.status)) =>
        /\ matcher.outcome.error = ""
        /\ matcher.outcome.amsDetected = FALSE
        /\ matcher.outcome.totalSlots = 1
        /\ matcher.outcome.mapping = [i \in 1..Len(matcher.profiles) |-> 0]
        /\ Len(matcher.outcome.matches) = Len(matcher.profiles)
        /\ \A i \in 1..Len(matcher.profiles) :
              /\ matcher.outcome.matches[i].matchedTrayId = 0
              /\ matcher.outcome.matches[i].matchedSlot = 1

\* C21 witness: two profiles matched against a bay whose unit holds no tray
C21_Witness ==
    /\ matcher.pc = "matched"
    /\ matcher.status = [bay |-> "units", units |-> <<[tray |-> << >>]>>]
    /\ Len(matcher.profiles) = 2
    /\ matcher.outcome.mapping = <<0, 0>>
    /\ matcher.outcome.amsDetected = FALSE

\* C22: a returned result has one mapping entry and one match per input
\* profile, entry i belonging to profile i
C22_OneEntryPerProfile ==
    (matcher.pc = "matched" /\ matcher.outcome.error = "") =>
        /\ Len(matcher.outcome.mapping) = Len(matcher.profiles)
        /\ Len(matcher.outcome.matches) = Len(matcher.profiles)
        /\ \A i \in 1..Len(matcher.profiles) :
              /\ matcher.outcome.matches[i].index = matcher.profiles[i].index
              /\ matcher.outcome.matches[i].type = matcher.profiles[i].type
              /\ matcher.outcome.matches[i].colour = matcher.profiles[i].colour
              /\ matcher.outcome.mapping[i] = matcher.outcome.matches[i].matchedTrayId

\* C22 witness: two different profiles matched to two different trays of a
\* reported bay
C22_Witness ==
    /\ matcher.pc = "matched"
    /\ matcher.outcome.error = ""
    /\ matcher.outcome.amsDetected
    /\ Len(matcher.profiles) = 2
    /\ matcher.profiles[1].type # matcher.profiles[2].type
    /\ matcher.outcome.mapping[1] # matcher.outcome.mapping[2]

\* C23: with loaded trays reported, every profile of a returned result is
\* mapped to a tray whose normalized type and color equal the profile's and
\* before which, in reported order, no tray has both equal
C23_FirstExactMatch ==
    (/\ matcher.pc = "matched"
     /\ ~NoLoadedTray(matcher.status)
     /\ matcher.outcome.error = "")
    => \A i \in 1..Len(matcher.profiles) :
          \E k \in 1..Len(ReportedTrays) :
              /\ normalizeType(ReportedTrays[k].tray_type)
                     = normalizeType(matcher.profiles[i].type)
              /\ normalizeColor(ReportedTrays[k].tray_color)
                     = normalizeColor(matcher.profiles[i].colour)
              /\ \A j \in 1..(k - 1) :
                    \/ normalizeType(ReportedTrays[j].tray_type)
                           # normalizeType(matcher.profiles[i].type)
                    \/ normalizeColor(ReportedTrays[j].tray_color)
                           # normalizeColor(matcher.profiles[i].colour)
              /\ matcher.outcome.matches[i].currentType = ReportedTrays[k].tray_type
              /\ matcher.outcome.matches[i].currentColor = ReportedTrays[k].tray_color

\* C23 witness: a red PLA profile against the trays "3" (#FF0000) and "2"
\* (#ff0000ff), both red PLA, in that order: the earlier one is taken
C23_Witness ==
    /\ matcher.pc = "matched"
    /\ Len(matcher.profiles) = 1
    /\ matcher.profiles[1].type = "PLA"
    /\ Len(ReportedTrays) = 2
    /\ ReportedTrays[1].id = "3" /\ ReportedTrays[2].id = "2"
    /\ matcher.outcome.error = ""
    /\ matcher.outcome.matches[1].currentColor = "#FF0000"

\* C24: with loaded trays reported and a profile without a matching tray,
\* the call fails for the first such profile, naming its type and colour and
\* listing slot, type and color of every reported tray, and returns neither
\* mapping nor matches
C24_FilamentNotFound ==
    (/\ matcher.pc = "matched"
     /\ ~NoLoadedTray(matcher.status)
     /\ \E i \in 1..Len(matcher.profiles) :
           \A k \in 1..Len(ReportedTrays) :
               ~ExactMatch(matcher.profiles[i], ReportedTrays[k]))
    => LET first == CHOOSE i \in 1..Len(matcher.profiles) :
                       /\ \A k \in 1..Len(ReportedTrays) :
                             ~ExactMatch(matcher.profiles[i], ReportedTrays[k])
                       /\ \A h \in 1..(i - 1) : \E k \in 1..Len(ReportedTrays) :
                             ExactMatch(matcher.profiles[h], ReportedTrays[k])
       IN  /\ StartsWith(matcher.outcome.error,
                         "Filament not found in AMS: Need "
                         \o matcher.profiles[first].type \o " ("
                         \o matcher.profiles[first].colour \o ") for profile "
                         \o ToString(first - 1))
           /\ \A k \in 1..Len(ReportedTrays) :
                 ReportedTrays[k].id # "" =>
                     Contains(matcher.outcome.error,
                              "Slot " \o ToString(DigitValue(ReportedTrays[k].id) + 1)
                              \o ": " \o ReportedTrays[k].tray_type
                              \o " (" \o ReportedTrays[k].tray_color \o ")")
           /\ matcher.outcome.mapping = << >>
           /\ matcher.outcome.matches = << >>

\* C24 witness: the first of two profiles has a tray, the second has none,
\* and the call failed naming the second
C24_Witness ==
    /\ matcher.pc = "matched"
    /\ Len(matcher.profiles) = 2
    /\ \E k \in 1..Len(ReportedTrays) : ExactMatch(matcher.profiles[1], ReportedTrays[k])
    /\ \A k \in 1..Len(ReportedTrays) : ~ExactMatch(matcher.profiles[2], ReportedTrays[k])
    /\ Contains(matcher.outcome.error, "for profile 1. Available: Slot ")

\* a hex colour: hex digits, with or without a leading #, padded or not
IsHexColor(color) ==
    LET body == StripHash(Trim(color))
    IN  /\ Len(body) > 0
        /\ \A i \in 1..Len(body) :
              \E h \in 1..22 : CharAt("0123456789abcdefABCDEF", h) = CharAt(body, i)

\* C25: normalizeColor applied to its own result of a hex colour returns
\* that result
C25_NormalizeColorIdempotent ==
    (matcher.pc = "renormalized" /\ IsHexColor(matcher.color)) =>
        matcher.again = matcher.normalized

\* C25 witness: the padded, #-prefixed, lowercase 8-character form has been
\* normalized twice
C25_Witness ==
    /\ matcher.pc = "renormalized"
    /\ matcher.color \in {"#ff0000ff", " #ff0000 "}
    /\ matcher.normalized = "FF0000"
    /\ matcher.again = "FF0000"

\* the integers of the tray ids a bay reports
TrayIdValue == [id \in {"0", "1", "2", "3"} |->
                  CASE id = "0" -> 0 [] id = "1" -> 1 [] id = "2" -> 2 [] id = "3" -> 3]

\* C26: every match of a returned result against reported trays carries the
\* integer of the id of a tray reported with that type and color as
\* matchedTrayId, and that plus one as matchedSlot
C26_TrayIdAndSlot ==
    (/\ matcher.pc = "matched"
     /\ ~NoLoadedTray(matcher.status)
     /\ matcher.outcome.error = "")
    => \A i \in 1..Len(matcher.profiles) :
          /\ matcher.outcome.matches[i].matchedSlot
                 = matcher.outcome.matches[i].matchedTrayId + 1
          /\ \E k \in 1..Len(ReportedTrays) :
                /\ ReportedTrays[k].id \in DOMAIN TrayIdValue
                /\ ReportedTrays[k].tray_type = matcher.outcome.matches[i].currentType
                /\ ReportedTrays[k].tray_color = matcher.outcome.matches[i].currentColor
                /\ matcher.outcome.matches[i].matchedTrayId
                       = TrayIdValue[ReportedTrays[k].id]

\* C26 witness: profile PLA / FF0000 against the tray "2", PLA, #ff0000ff
\* gave matchedTrayId 2 and matchedSlot 3
C26_Witness ==
    /\ matcher.pc = "matched"
    /\ Len(matcher.profiles) = 1
    /\ matcher.profiles[1].type = "PLA" /\ matcher.profiles[1].colour = "FF0000"
    /\ Len(ReportedTrays) = 1
    /\ ReportedTrays[1] = [id |-> "2", tray_type |-> "PLA", tray_color |-> "#ff0000ff"]
    /\ matcher.outcome.mapping = <<2>>
    /\ matcher.outcome.matches[1].matchedTrayId = 2
    /\ matcher.outcome.matches[1].matchedSlot = 3

\* ------------------------------------------------------------------------
\* Properties of the teardown of the two sessions
\* ------------------------------------------------------------------------
\* a step that is a call of BambuLabMqttClient.disconnect()
MqttDisconnectCalled == Len(disc') = Len(disc) + 1

\* a step that is a call of the named method of BambuLabFtpClient
FtpCalled(method) ==
    /\ ftp'.calls + ftp'.disconnects = ftp.calls + ftp.disconnects + 1
    /\ ftp'.last.method = method

\* a file-transfer session that was never connected or is disconnected
FtpDisconnected(f) == ~f.isConnected /\ f.closed

\* C27: disconnect() on a messaging session without client, never connected
\* or already disconnected, resolves at once and leaves the session as it
\* was; disconnect() on a file-transfer session that is closed leaves the
\* session as it was and does not fail; every disconnect() that completes,
\* the first as well as a later one, leaves the same state: no client and an
\* empty buffer, a closed channel and the flag off
C27_DisconnectIdempotent ==
    [][/\ (MqttDisconnectCalled /\ client = 0) =>
              /\ disc'[Len(disc')].promise = "resolved"
              /\ UNCHANGED <<connVars, messageBuffer, updateCallback, lastParseError,
                             parseErrorHistory, call, received, published>>
       /\ \A d \in 1..Len(disc') :
              (disc'[d].promise = "resolved" /\ (d > Len(disc) \/ disc[d].promise # "resolved"))
                  => client' = 0 /\ messageBuffer' = << >>
       /\ \A d \in 1..Len(disc') : disc'[d].promise \in {"pending", "resolved"}
       /\ (FtpCalled("disconnect") /\ FtpDisconnected(ftp)) =>
              /\ ftp'.isConnected = ftp.isConnected
              /\ ftp'.closed = ftp.closed
              /\ ftp'.closes = ftp.closes
              /\ ftp'.sent = ftp.sent
       /\ FtpCalled("disconnect") => FtpDisconnected(ftp') /\ ftp'.last.error = ""
      ]_vars

\* C27 witness: both sessions were connected and disconnect() was called
\* twice on each; the second call on the messaging session found no client
C27_Witness ==
    /\ Len(disc) = 2
    /\ disc[1].path = "graceful"
    /\ disc[2].path = "no client"
    /\ ftp.disconnects = 2
    /\ ftp.closes = 1
    /\ ftp.last.method = "disconnect"
    /\ FtpDisconnected(ftp)

\* ------------------------------------------------------------------------
\* Properties of the file-transfer client
\* ------------------------------------------------------------------------
\* the methods that take a remote path, and the file command each hands to
\* the channel
PathCommands ==
    [m \in {"uploadFile", "listFiles", "deleteFile", "downloadFile",
            "downloadFileAsBuffer", "createDirectory", "changeDirectory"} |->
        CASE m = "uploadFile" -> "uploadFrom"
          [] m = "listFiles" -> "list"
          [] m = "deleteFile" -> "remove"
          [] m \in {"downloadFile", "downloadFileAsBuffer"} -> "downloadTo"
          [] m = "createDirectory" -> "ensureDir"
          [] m = "changeDirectory" -> "cd"]

\* what the sanitizers make of each path and of each upload drawn
SanitizedPaths == [path \in RemotePaths |-> sanitizePath(path)]
UploadTargets ==
    [upload \in UploadNames \X UploadPaths |-> UploadTarget(upload[1], upload[2])]

\* what the sanitizers make of the arguments of a call
SanitizedArgs(method, args) ==
    IF method = "uploadFile" THEN UploadTargets[<<args.fileName, args.path>>]
    ELSE SanitizedPaths[args.path]

\* the file command of a call is the one of its method, with the path the
\* sanitizers returned (target); a call whose path they reject fails, with
\* their error unless connecting failed before, and issues nothing
SanitizedCall(method, target, f) ==
    IF target.error # ""
    THEN /\ Len(f.sent) = f.last.sentBefore
         /\ f.last.error \in {target.error, "connect"}
    ELSE \/ Len(f.sent) = f.last.sentBefore /\ f.last.error = "connect"
         \/ /\ Len(f.sent) = f.last.sentBefore + 1
            /\ f.sent[Len(f.sent)] = [command |-> PathCommands[method],
                                      path |-> target.path]

\* C28: every operation that takes a remote path hands the channel only a
\* command that carries the sanitizer's result for that path, and when the
\* sanitizer rejects the path the operation fails and issues no command
C28_SanitizedBeforeCommand ==
    ftp.last.method \in DOMAIN PathCommands =>
        SanitizedCall(ftp.last.method, SanitizedArgs(ftp.last.method, ftp.last.args), ftp)

\* C28 witness: a listing of "/cache/" was issued for "/cache", and the
\* deletion of an encoded traversal path after it failed without a command
C28_Witness ==
    /\ ftp.sent = <<[command |-> "list", path |-> "/cache"]>>
    /\ ftp.isConnected
    /\ ftp.last.method = "deleteFile"
    /\ ftp.last.args.path = "%2e%2e%2fetc"
    /\ StartsWith(ftp.last.error, "Path traversal detected")

\* ------------------------------------------------------------------------
\* Properties of the timers and of the buffer of a waited call
\* ------------------------------------------------------------------------
\* C29: a publishCommand(command, true) or getStatus() that has settled, by a
\* match, by the fallback or by the timeout, has neither timer armed, and no
\* later step is a timer callback of it: until the next call its record, its
\* clock included, stays as it was.
C29_TimersCancelledOnSettle ==
    [][ /\ (Awaited' /\ call'.promise \in {"resolved", "rejected"}) =>
              ~call'.timeout /\ ~call'.interval
        /\ (Awaited /\ call.promise \in {"resolved", "rejected"}) =>
              call' = call \/ apiCalls' = apiCalls + 1
      ]_vars

\* C29 witness: a command with an identifier was resolved by the fallback,
\* and a message that arrived after that sits in the buffer with no timer
\* left to poll it
C29_Witness ==
    /\ Awaited
    /\ call.kind = "publishCommand"
    /\ call.seqId # Undefined
    /\ call.promise = "resolved"
    /\ ~BearsSeqId(call.result, call.seqId)
    /\ call.elapsed < MQTT_RESPONSE
    /\ messageBuffer # << >>

\* C30: the step in which publishCommand(command, true) or getStatus()
\* publishes leaves the buffer empty, the call resolves only with a message
\* that was received after that step, and the step in which it resolves
\* leaves the buffer empty.
C30_BufferClearedAroundWait ==
    [][ /\ (apiCalls' = apiCalls + 1 /\ Awaited') =>
              /\ messageBuffer' = << >>
              /\ call'.publishedAt = Len(received')
              /\ call'.promise = "pending"
        /\ (Awaited' /\ call.promise = "pending" /\ call'.promise = "resolved") =>
              /\ messageBuffer' = << >>
              /\ call'.result.n > call'.publishedAt
              /\ call'.result = received'[call'.result.n]
      ]_vars

\* C30 witness: a message was received before the first call, a
\* publishCommand(command, true), began; the call resolved with a message
\* received after its publish, and the buffer is empty
C30_Witness ==
    /\ apiCalls = 1
    /\ Awaited
    /\ call.kind = "publishCommand"
    /\ call.publishedAt > 0
    /\ call.promise = "resolved"
    /\ call.result.n > call.publishedAt
    /\ messageBuffer = << >>

\* ------------------------------------------------------------------------
\* Properties of the fallback of publishCommand
\* ------------------------------------------------------------------------
\* C31: a step in which publishCommand(command, true) resolves with a message
\* that does not bear the identifier of the command is a step at whose start
\* no buffered message bore that identifier, and the message returned is the
\* last one of the buffer, the one received most recently.
C31_FallbackIsLastMessage ==
    [][ ( /\ call.promise = "pending"
          /\ call'.promise = "resolved"
          /\ call'.kind = "publishCommand"
          /\ Truthy(call'.seqId)
          /\ ~BearsSeqId(call'.result, call'.seqId) )
        => /\ messageBuffer # << >>
           /\ \A i \in 1..Len(messageBuffer) : ~BearsSeqId(messageBuffer[i], call.seqId)
           /\ call'.result = messageBuffer[Len(messageBuffer)]
           /\ call'.result = received[Len(received)]
      ]_vars

\* C31 witness: two messages without the identifier "1" of a gcode_line
\* command were buffered when the poll ran, and the call resolved with the
\* second of them
C31_Witness ==
    /\ call.kind = "publishCommand"
    /\ call.seqId = "1"
    /\ call.promise = "resolved"
    /\ ~BearsSeqId(call.result, call.seqId)
    /\ call.result.n = call.publishedAt + 2
    /\ Len(received) = call.result.n

\* ------------------------------------------------------------------------
\* Properties of the life cycle of the session
\* ------------------------------------------------------------------------
\* the connection state of the session, read off the handle this.client
\* refers to (hs, c) and the connection attempts (as): connecting while the
\* attempt on the handle is pending, connected once it has resolved,
\* disconnecting while the handle is being ended
StateOf(hs, c, as) ==
    IF c = 0 THEN "unconnected"
    ELSE IF hs[c].state = "closing" THEN "disconnecting"
    ELSE IF hs[c].state \notin {"connecting", "connected"} THEN "unconnected"
    ELSE IF \E i \in 1..Len(as) : as[i].handle = c /\ as[i].promise = "pending"
    THEN "connecting"
    ELSE IF \E i \in 1..Len(as) : as[i].handle = c /\ as[i].promise = "resolved"
    THEN "connected"
    ELSE "unconnected"

SessionState == StateOf(handles, client, attempts)

\* the transitions of the cycle unconnected -> connecting -> connected ->
\* disconnecting -> unconnected
Cycle ==
    { <<"unconnected", "connecting">>, <<"connecting", "connected">>,
      <<"connected", "disconnecting">>, <<"disconnecting", "unconnected">> }

\* C32 as stated: the state changes only along the cycle.
C32_OnlyAlongCycle ==
    [][ SessionState' # SessionState => <<SessionState, SessionState'>> \in Cycle ]_vars

\* ------------------------------------------------------------------------
\* Properties of the correlation identifier of a built command
\* ------------------------------------------------------------------------
\* mutant of commandSeqIdOf: gcode_line commands yield no identifier
commandSeqIdOf_NoGcode(command) ==
    IF "print" \in DOMAIN command THEN command.print.sequence_id
    ELSE IF "pushing" \in DOMAIN command THEN command.pushing.sequence_id
    ELSE IF "system" \in DOMAIN command THEN command.system.sequence_id
    ELSE Undefined

\* const commandSeqId = 'print' in command ? command.print.sequence_id : ...
\* applied to a command object as the builders return it
commandSeqIdOf(command) ==
    IF "print" \in DOMAIN command THEN command.print.sequence_id
    ELSE IF "pushing" \in DOMAIN command THEN command.pushing.sequence_id
    ELSE IF "system" \in DOMAIN command THEN command.system.sequence_id
    ELSE IF "gcode_line" \in DOMAIN command THEN command.gcode_line.sequence_id
    ELSE Undefined

\* the top-level keys of a command object
KeysOf(command) == DOMAIN command

\* the report by which the device echoes identifier id under key
EchoUnder(key, id) == [key |-> key, sequence_id |-> id, ams |-> FALSE, n |-> 1]

\* C33: the identifier publishCommand extracts from the command a builder
\* returned last is the identifier the builder assigned, the command has one
\* top-level key, and a report echoing the identifier under that key passes
\* the test by which the response is searched.
C33_SeqIdRoundTrip ==
    commands.call.builder \notin {"none", "resetSequenceId"} =>
        LET id == commands.ids[Len(commands.ids)]
        IN  /\ commandSeqIdOf(commands.last) = id
            /\ Truthy(id)
            /\ Cardinality(KeysOf(commands.last)) = 1
            /\ \A key \in KeysOf(commands.last) :
                  /\ key \in {"print", "pushing", "system", "gcode_line"}
                  /\ SeqUnder(EchoUnder(key, id), key) = id
                  /\ BearsSeqId(EchoUnder(key, id), id)

\* C33 witness: the second command built is a G-code command and the
\* identifier extracted from it is "1"
C33_Witness ==
    /\ commands.ids = <<"0", "1">>
    /\ "gcode_line" \in DOMAIN commands.last
    /\ commandSeqIdOf(commands.last) = "1"

\* ------------------------------------------------------------------------
\* Specification SpecParseErrors: a connected session without update
\* callback receiving payloads, most of which do not parse
\* ------------------------------------------------------------------------
MaxBadBurst == 12       \* payloads that fail to parse in one run

\* a payload on which JSON.parse throws, one of a long series
BadPayloadBurst ==
    /\ badPayloads < MaxBadBurst
    /\ \E h \in 1..Len(handles) : Delivering(h)
    /\ OnBadPayload
    /\ UNCHANGED <<nodeVars, retryVars, connVars, call, disc, published, apiCalls, clearedAt>>

InitParseErrors == Connected /\ SessionNew /\ NodeIdle

NextParseErrors ==
    \/ MessageArrives
    \/ BadPayloadBurst

SpecParseErrors == InitParseErrors /\ [][NextParseErrors]_vars

MaxInflight == 2        \* waiting calls started in one run

\* publishCommand(command, true) or getStatus(), called whether or not an
\* earlier call is still waiting
StartConcurrent ==
    /\ Len(inflight) < MaxInflight
    /\ \E kind \in {"publishCommand", "getStatus"}, command \in Commands :
          LET c == IF kind = "getStatus"
                   THEN NewCall("getStatus", TRUE, StatusSequenceId)
                   ELSE NewCall("publishCommand", TRUE, commandSeqId(command))
          IN  IF NotConnected
              THEN /\ inflight' = Append(inflight,
                                         [c EXCEPT !.promise = "rejected",
                                                   !.error = MQTT_NOT_CONNECTED,
                                                   !.settleCalls = 1])
                   /\ published' = << >>
                   /\ UNCHANGED <<messageBuffer, clearedAt>>
              ELSE /\ messageBuffer' = << >>
                   /\ clearedAt' = Len(received)
                   /\ published' =
                        IF kind = "getStatus"
                        THEN <<[key |-> "pushing", sequence_id |-> StatusSequenceId]>>
                        ELSE <<command>>
                   /\ inflight' = Append(inflight,
                                         [c EXCEPT !.promise = "pending",
                                                   !.timeout = TRUE,
                                                   !.interval = TRUE])
    /\ UNCHANGED <<retryVars, connVars, updateCallback, lastParseError,
                   parseErrorHistory, call, disc, received, badPayloads,
                   callbackLog, apiCalls, exec, commands, parser, matcher, ftp>>

\* the setInterval callback of one of the waiting calls
PollFires ==
    \E i \in 1..Len(inflight) :
        /\ inflight[i].interval
        /\ LET polled == PollCallback(inflight[i], messageBuffer)
           IN  /\ inflight' = [inflight EXCEPT ![i] = polled[1]]
               /\ messageBuffer' = polled[2]
        /\ clearedAt' = IF messageBuffer' = messageBuffer THEN clearedAt
                        ELSE Len(received)
        /\ UNCHANGED <<retryVars, connVars, updateCallback, lastParseError,
                       parseErrorHistory, call, disc, received, badPayloads,
                       published, callbackLog, apiCalls, exec, commands, parser,
                       matcher, ftp>>

\* the setTimeout callback of one of the waiting calls
TimeoutFires ==
    \E i \in 1..Len(inflight) :
        /\ inflight[i].timeout
        /\ inflight' = [inflight EXCEPT ![i] = TimeoutCallback(@)]
        /\ UNCHANGED <<retryVars, connVars, sessVars, exec, commands, parser,
                       matcher, ftp>>

InitConcurrent == Connected /\ SessionNew /\ NodeIdle

NextConcurrent ==
    \/ StartConcurrent
    \/ MessageArrives
    \/ PollFires
    \/ TimeoutFires

SpecConcurrent == InitConcurrent /\ [][NextConcurrent]_vars

\* C35 as stated: a call never resolves with a message bearing the
\* identifier of another call, and while a call waits no step of another
\* call removes from the buffer a message bearing the identifier of the
\* waiting call.
C35_NoCrossTalk ==
    [][ \A i \in 1..Len(inflight) :
          /\ \A j \in 1..Len(inflight) :
                (/\ i # j
                 /\ inflight[i].promise = "pending"
                 /\ inflight'[i].promise = "resolved"
                 /\ inflight[j].seqId # inflight[i].seqId
                 /\ Truthy(inflight[j].seqId))
                => ~BearsSeqId(inflight'[i].result, inflight[j].seqId)
          /\ (/\ inflight[i].promise = "pending"
              /\ inflight'[i].promise = "pending"
              /\ Truthy(inflight[i].seqId))
             => \A k \in 1..Len(messageBuffer) :
                   BearsSeqId(messageBuffer[k], inflight[i].seqId)
                   => \E m \in 1..Len(messageBuffer') :
                         messageBuffer'[m] = messageBuffer[k] ]_vars

\* ------------------------------------------------------------------------
\* Specification SpecOffline: calls on a session that was never connected
\* or whose connection was lost
\* ------------------------------------------------------------------------
\* the connection of a handle closes under the session: the transport sets
\* connected to false and, with reconnectPeriod 0, leaves it there; the
\* session registers no handler for it and keeps client and buffer
ConnectionLost ==
    \E h \in 1..Len(handles) :
        /\ handles[h].state = "connected"
        /\ handles' = [handles EXCEPT ![h].state = "lost"]
        /\ UNCHANGED <<client, attempts, retryVars, sessVars, nodeVars>>

InitOffline == (Connected \/ (RetryInit /\ ConnIdle)) /\ SessionNew /\ NodeIdle

NextOffline ==
    \/ MessageArrives
    \/ ConnectionLost
    \/ PublishCommand
    \/ GetStatus
    \/ Tick

SpecOffline == InitOffline /\ [][NextOffline]_vars

\* C36: a publishCommand or getStatus call made while the session has no
\* handle, or a handle that is not connected, is rejected with the
\* not-connected error, publishes nothing, leaves the buffer as it is and
\* starts no timer.
C36_NotConnectedNoEffect ==
    [][ (/\ apiCalls' = apiCalls + 1
         /\ call'.kind \in {"publishCommand", "getStatus"}
         /\ \/ client = 0
            \/ handles[client].state \notin {"connected", "closing"})
        => /\ call'.promise = "rejected"
           /\ call'.error = "MQTT client is not connected"
           /\ published' = << >>
           /\ messageBuffer' = messageBuffer
           /\ clearedAt' = clearedAt
           /\ ~call'.timeout
           /\ ~call'.interval
           /\ handles' = handles /\ client' = client ]_vars

\* C36 witness: getStatus() was rejected on a session whose connection was
\* lost while two reports were buffered, and both are still buffered
C36_Witness ==
    /\ call.kind = "getStatus"
    /\ call.promise = "rejected"
    /\ call.error = MQTT_NOT_CONNECTED
    /\ client # 0
    /\ handles[client].state = "lost"
    /\ Len(messageBuffer) = 2
    /\ published = << >>

\* ------------------------------------------------------------------------
\* Specification SpecClose: a connected session that is closed while a call
\* may be waiting for its response
\* ------------------------------------------------------------------------
InitClose == Connected /\ SessionNew /\ NodeIdle

NextClose ==
    \/ PublishCommand
    \/ GetStatus
    \/ MessageArrives
    \/ Tick
    \/ DisconnectAnytime
    \/ GracefulEndCompletes
    \/ DisconnectTimeoutFires
    \/ ForceDisconnect

SpecClose == InitClose /\ [][NextClose]_vars

\* C37 as stated: once this.client is null again, that is once disconnect()
\* or forceDisconnect() has completed on the connected session, neither the
\* poll timer nor the response timer of a call is active.
C37_NoTimerAfterClose ==
    client = 0 => ~call.timeout /\ ~call.interval

\* ------------------------------------------------------------------------
\* Properties of the handles of connect()
\* ------------------------------------------------------------------------
\* a handle on which end() was never called
NotEnded(h) == handles[h].state # "ended"

\* C38 as stated: at most one handle of the session has not been ended, the
\* one this.client refers to.
C38_OneOpenHandle ==
    \A h \in 1..Len(handles) : NotEnded(h) => h = client

\* ------------------------------------------------------------------------
\* Properties of the parse errors of payloads that parse
\* ------------------------------------------------------------------------
\* C39 as stated: the handler of a payload that parses appends it to the
\* buffer and leaves the parse-error history and the last parse error as
\* they are, whatever the update callback does.
C39_ParsedPayloadAddsNoError ==
    [][ received' # received
        => /\ messageBuffer' = PushBounded(messageBuffer, received'[Len(received')])
           /\ parseErrorHistory' = parseErrorHistory
           /\ lastParseError' = lastParseError ]_vars

\* ------------------------------------------------------------------------
\* Properties of the cleanup of execute
\* ------------------------------------------------------------------------
\* C40: when execute() has returned or thrown, disconnect() was called once
\* on the messaging session and once on the file-transfer session, whether
\* or not a connect() succeeded; before that neither was called; what
\* execute() throws is the failure of the item that ended it, and it throws
\* only for a failing item with continueOnFail off.
C40_CleanupOnEveryExit ==
    /\ exec.pc \in {"returned", "thrown"} =>
          /\ exec.mqttDisconnects = 1
          /\ exec.ftpDisconnects = 1
    /\ exec.pc \in {"idle", "loop"} =>
          /\ exec.mqttDisconnects = 0
          /\ exec.ftpDisconnects = 0
    /\ exec.pc = "returned" => exec.error = ""
    /\ exec.pc = "thrown" =>
          /\ ~exec.continueOnFail
          /\ exec.error \in {"connect failed", "Unknown resource", "operation failed"}
          /\ exec.error = "connect failed" =>
                /\ exec.connects # << >>
                /\ ~exec.connects[Len(exec.connects)].ok

\* C40 witness: connect() failed for the first item with continueOnFail off;
\* execute() threw that failure after disconnecting both sessions, none of
\* which was ever connected
C40_Witness ==
    /\ exec.pc = "thrown"
    /\ exec.error = "connect failed"
    /\ ~exec.mqttConnected
    /\ exec.i = 1
    /\ exec.mqttDisconnects = 1
    /\ exec.ftpDisconnects = 1
====
